---- MODULE Spec2Model ----
(***************************************************************************)
(* MoltStreet prediction market: order placement, matching, cancellation,  *)
(* the manual-mode approval queue, transfers, market creation and          *)
(* resolution, modelled on the committed database state.                   *)
(*                                                                         *)
(* Money is counted in units of 0.00001 token (UnitsPerToken per token),   *)
(* prices in cents.  Every product of a price in cents, a share count and  *)
(* one of the configured fee rates is a whole number of units, so the      *)
(* Decimal arithmetic of the source is exact in these units.  Average      *)
(* prices are exact rationals <<numerator, denominator>> in cents;         *)
(* <<0, 1>> stands for None.                                               *)
(***************************************************************************)
EXTENDS Integers, Sequences, FiniteSets

\* ---------------------------------------------------------------- bounds
MaxOrders == 3
MaxQueueOrders == 2
MaxLedgerOrders == 2
MaxBetOrders == 2
MaxLifecycleOrders == 3
MaxSweepOrders == 3
MaxFeeOrders == 2
MaxFaultOrders == 2
MaxRaceOrders == 3
MaxCancelRaceOrders == 2
MaxRaceSize == 2
MaxRequests == 2
MaxWaitOrders == 4
MaxSize == 2
MaxActions == 1
MaxTransfers == 1
MaxModeChanges == 1

\* ------------------------------------------------------------- constants
UnitsPerCent == 1000
UnitsPerToken == 100000
RateDen == 1000
TRADING_FEE_RATE == 10
SETTLEMENT_FEE_RATE == 20
MODERATOR_PLATFORM_SHARE == 300
MODERATOR_WINNER_FEE == 5
MARKET_CREATION_FEE == 1000000

Traders == {"alice", "bob"}
Moderators == {"mod"}
Agents == Traders \cup Moderators
NoAgent == "nobody"
Markets == {1, 2}
Sides == {"YES", "NO"}
OrderTypes == {"buy", "sell"}
Prices == {40, 60}
Sizes == 1..MaxSize
TransferAmounts == {50000}
None == <<0, 1>>

VARIABLES agents, markets, orders, positions, trades, fees, stats, rewards,
          actions, transfers, mode_changes, last, reqs

vars == <<agents, markets, orders, positions, trades, fees, stats, rewards,
          actions, transfers, mode_changes, last, reqs>>

\* ------------------------------------------------------------ arithmetic
Min(a, b) == IF a < b THEN a ELSE b
Max(a, b) == IF a > b THEN a ELSE b

RECURSIVE GCD(_, _)
GCD(a, b) == IF b = 0 THEN a ELSE GCD(b, a % b)

\* A rational n/d (d > 0) in lowest terms.
Norm(n, d) == LET g == GCD(n, d) IN IF g = 0 THEN <<0, 1>> ELSE <<n \div g, d \div g>>

\* price (cents) * size, in units
Cost(price, size) == price * size * UnitsPerCent

\* amount * rate, rate given per RateDen
Rate(amount, rate) == (amount * rate) \div RateDen

\* The sum of a sequence of numbers.
RECURSIVE SumSeq(_)
SumSeq(s) == IF s = <<>> THEN 0 ELSE Head(s) + SumSeq(Tail(s))

\* The sum of f[x] over x in S.
RECURSIVE SumFn(_, _)
SumFn(f, S) == IF S = {} THEN 0
               ELSE LET x == CHOOSE y \in S : TRUE IN f[x] + SumFn(f, S \ {x})

\* The ids of ids, ordered by ascending key, then ascending id (creation time).
RECURSIVE SortIds(_, _)
SortIds(ids, key) ==
  IF ids = {} THEN <<>>
  ELSE LET first == CHOOSE i \in ids :
                      \A j \in ids \ {i} : key[i] < key[j] \/ (key[i] = key[j] /\ i < j)
       IN <<first>> \o SortIds(ids \ {first}, key)

\* ------------------------------------------------------------ the tables
\* The rows a database session works on.
Session == [agents |-> agents, markets |-> markets, orders |-> orders,
            positions |-> positions, trades |-> trades, fees |-> fees,
            stats |-> stats, rewards |-> rewards, actions |-> actions]

Position == [yes_shares |-> 0, no_shares |-> 0, avg_yes_price |-> None, avg_no_price |-> None]

Agent(role, trading_mode, balance) == [role |-> role, trading_mode |-> trading_mode,
                         balance |-> balance, locked_balance |-> 0]

Market == [status |-> "open", outcome |-> "none", yes_price |-> 50, no_price |-> 50,
           volume |-> 0, resolved_by |-> NoAgent]

NoMarket == [status |-> "none", outcome |-> "none", yes_price |-> 50, no_price |-> 50,
             volume |-> 0, resolved_by |-> NoAgent]

PlatformStats == [total_trading_fees |-> 0, total_market_creation_fees |-> 0,
                  total_settlement_fees |-> 0, total_trades |-> 0,
                  total_markets_created |-> 0, total_markets_resolved |-> 0]

available_balance(agent) == agent.balance - agent.locked_balance
\* Faulty variant: the role is not looked at.
can_trade_any_role(agent) == agent.role \in {"trader", "moderator"}

can_trade(agent) == agent.role = "trader"
can_resolve(agent) == agent.role = "moderator"
remaining(order) == order.size - order.filled

\* ----------------------------------------------------- ledger primitives
\* Faulty variant: the available balance is not checked.
lock_without_check(S, agent_id, price, size) ==
  IF agent_id \notin DOMAIN S.agents THEN [ok |-> FALSE, S |-> S]
  ELSE [ok |-> TRUE,
        S |-> [S EXCEPT !.agents[agent_id].locked_balance = @ + Cost(price, size)]]

\* Returns [ok, S]: ok is the bool result, S the session afterwards.
lock_balance_for_order(S, agent_id, price, size) ==
  LET cost == Cost(price, size) IN
  IF agent_id \notin DOMAIN S.agents THEN [ok |-> FALSE, S |-> S]
  ELSE LET agent == S.agents[agent_id] IN
       IF available_balance(agent) < cost THEN [ok |-> FALSE, S |-> S]
       ELSE [ok |-> TRUE,
             S |-> [S EXCEPT !.agents[agent_id].locked_balance = @ + cost]]

\* Faulty variant: the refund is also credited to balance.
unlock_and_credit(S, agent_id, price, unfilled) ==
  LET refund == Cost(price, unfilled) IN
  [refund |-> refund,
   S |-> [S EXCEPT !.agents[agent_id].locked_balance = @ - refund,
                   !.agents[agent_id].balance = @ + refund]]

\* Returns [refund, S].
unlock_balance_for_cancelled_order(S, agent_id, price, unfilled) ==
  LET refund == Cost(price, unfilled) IN
  [refund |-> refund,
   S |-> [S EXCEPT !.agents[agent_id].locked_balance = @ - refund]]

settle_trade(S, buyer_id, seller_id, price, size, buyer_fee, seller_fee) ==
  LET buyer_cost == Cost(price, size)
      seller_cost == Cost(100 - price, size)
      S1 == [S EXCEPT !.agents[buyer_id].locked_balance = @ - buyer_cost,
                      !.agents[buyer_id].balance = @ - (buyer_cost + buyer_fee)]
  IN [S1 EXCEPT !.agents[seller_id].locked_balance = @ - seller_cost,
                !.agents[seller_id].balance = @ - (seller_cost + seller_fee)]

update_platform_stats(S, trading_fee, market_creation_fee, settlement_fee, trade_count, markets_created, markets_resolved) ==
  [S EXCEPT !.stats.total_trading_fees = @ + trading_fee,
            !.stats.total_market_creation_fees = @ + market_creation_fee,
            !.stats.total_settlement_fees = @ + settlement_fee,
            !.stats.total_trades = @ + trade_count,
            !.stats.total_markets_created = @ + markets_created,
            !.stats.total_markets_resolved = @ + markets_resolved]

PlatformFee(fee_type, amount, agent_id, market_id) ==
  [fee_type |-> fee_type, amount |-> amount, agent_id |-> agent_id, market_id |-> market_id]

record_trading_fee(S, buyer_id, seller_id, buyer_fee, seller_fee, market_id) ==
  LET S1 == IF buyer_fee > 0
            THEN [S EXCEPT !.fees = Append(@, PlatformFee("trading", buyer_fee, buyer_id, market_id))]
            ELSE S
      S2 == IF seller_fee > 0
            THEN [S1 EXCEPT !.fees = Append(@, PlatformFee("trading", seller_fee, seller_id, market_id))]
            ELSE S1
  IN update_platform_stats(S2, buyer_fee + seller_fee, 0, 0, 1, 0, 0)

\* Faulty variant: no_price is left as it was.
update_yes_price_only(S, market_id, last_price) ==
  [S EXCEPT !.markets[market_id].yes_price = last_price]

update_market_price(S, market_id, last_price) ==
  [S EXCEPT !.markets[market_id].yes_price = last_price,
            !.markets[market_id].no_price = 100 - last_price]

\* ------------------------------------------------------ position tracker
\* Faulty variant: the plain mean of the old average and the new price.
PlainAvg(avg, old_shares, price, shares) ==
  Norm(avg[1] + price * avg[2], 2 * avg[2])

\* The weighted mean (avg * old_shares + price * shares) / (old_shares + shares).
WeightedAvg(avg, old_shares, price, shares) ==
  Norm(avg[1] * old_shares + price * shares * avg[2], avg[2] * (old_shares + shares))

\* Faulty variant: a sell forgets the average price.
update_position_forget_avg(S, agent_id, market_id, side, shares, price, is_buy) ==
  LET position == S.positions[<<agent_id, market_id>>]
      new == IF side = "YES"
             THEN [position EXCEPT !.yes_shares = @ + shares,
                                   !.avg_yes_price = IF is_buy THEN <<price, 1>> ELSE None]
             ELSE [position EXCEPT !.no_shares = @ + shares,
                                   !.avg_no_price = IF is_buy THEN <<price, 1>> ELSE None]
  IN [S EXCEPT !.positions[<<agent_id, market_id>>] = new]

\* Faulty variant: a sale leaves the seller's share count as it was.
update_position_keep_sold(S, agent_id, market_id, side, shares, price, is_buy) ==
  LET position == S.positions[<<agent_id, market_id>>]
      bought == IF shares > 0 THEN shares ELSE 0
      new == IF side = "YES"
             THEN [position EXCEPT !.yes_shares = @ + bought]
             ELSE [position EXCEPT !.no_shares = @ + bought]
  IN [S EXCEPT !.positions[<<agent_id, market_id>>] = new]

update_position(S, agent_id, market_id, side, shares, price, is_buy) ==
  LET position == S.positions[<<agent_id, market_id>>]
      new == IF side = "YES"
             THEN IF is_buy /\ shares > 0
                  THEN [position EXCEPT
                          !.avg_yes_price =
                             IF position.yes_shares > 0 /\ position.avg_yes_price[1] # 0
                             THEN WeightedAvg(position.avg_yes_price, position.yes_shares, price, shares)
                             ELSE <<price, 1>>,
                          !.yes_shares = @ + shares]
                  ELSE [position EXCEPT !.yes_shares = @ + shares]
             ELSE IF is_buy /\ shares > 0
                  THEN [position EXCEPT
                          !.avg_no_price =
                             IF position.no_shares > 0 /\ position.avg_no_price[1] # 0
                             THEN WeightedAvg(position.avg_no_price, position.no_shares, price, shares)
                             ELSE <<price, 1>>,
                          !.no_shares = @ + shares]
                  ELSE [position EXCEPT !.no_shares = @ + shares]
  IN [S EXCEPT !.positions[<<agent_id, market_id>>] = new]

\* ------------------------------------------------------- matching engine
OpenStatus == {"open", "partial"}

\* Faulty variant of Strategy 1: the incoming agent's own orders are candidates.
same_side_query_any_agent(S, oid) ==
  LET order == S.orders[oid]
      opposite_type == IF order.order_type = "buy" THEN "sell" ELSE "buy"
      rows == {i \in DOMAIN S.orders :
                 /\ S.orders[i].market_id = order.market_id
                 /\ S.orders[i].side = order.side
                 /\ S.orders[i].order_type = opposite_type
                 /\ S.orders[i].status \in OpenStatus
                 /\ IF order.order_type = "buy"
                    THEN S.orders[i].price <= order.price
                    ELSE S.orders[i].price >= order.price}
  IN IF order.order_type = "buy"
     THEN SortIds(rows, [i \in rows |-> S.orders[i].price])
     ELSE SortIds(rows, [i \in rows |-> 0 - S.orders[i].price])

\* Strategy 1: same side, opposite type, sorted for the incoming order.
same_side_query(S, oid) ==
  LET order == S.orders[oid]
      opposite_type == IF order.order_type = "buy" THEN "sell" ELSE "buy"
      K == Len(S.orders) + 1
      rows == {i \in DOMAIN S.orders :
                 /\ S.orders[i].market_id = order.market_id
                 /\ S.orders[i].side = order.side
                 /\ S.orders[i].order_type = opposite_type
                 /\ S.orders[i].status \in OpenStatus
                 /\ IF order.order_type = "buy"
                    THEN S.orders[i].price <= order.price
                    ELSE S.orders[i].price >= order.price
                 /\ S.orders[i].agent_id # order.agent_id}
  IN IF order.order_type = "buy"
     THEN SortIds(rows, [i \in rows |-> S.orders[i].price])
     ELSE SortIds(rows, [i \in rows |-> 0 - S.orders[i].price])

\* Faulty variant of Strategy 2: candidates in ascending price.
complementary_query_ascending(S, oid) ==
  LET order == S.orders[oid]
      opposite_side == IF order.side = "YES" THEN "NO" ELSE "YES"
      min_opposite_price == 100 - order.price
      rows == {i \in DOMAIN S.orders :
                 /\ S.orders[i].market_id = order.market_id
                 /\ S.orders[i].side = opposite_side
                 /\ S.orders[i].order_type = order.order_type
                 /\ S.orders[i].status \in OpenStatus
                 /\ S.orders[i].price >= min_opposite_price
                 /\ S.orders[i].agent_id # order.agent_id}
  IN SortIds(rows, [i \in rows |-> S.orders[i].price])

\* Faulty variant of Strategy 2: prices must sum to more than 1.00.
complementary_query_strict(S, oid) ==
  LET order == S.orders[oid]
      opposite_side == IF order.side = "YES" THEN "NO" ELSE "YES"
      min_opposite_price == 100 - order.price
      rows == {i \in DOMAIN S.orders :
                 /\ S.orders[i].market_id = order.market_id
                 /\ S.orders[i].side = opposite_side
                 /\ S.orders[i].order_type = order.order_type
                 /\ S.orders[i].status \in OpenStatus
                 /\ S.orders[i].price > min_opposite_price
                 /\ S.orders[i].agent_id # order.agent_id}
  IN SortIds(rows, [i \in rows |-> 0 - S.orders[i].price])

\* Faulty variant of Strategy 2: resting orders of every status are candidates.
complementary_query_any_status(S, oid) ==
  LET order == S.orders[oid]
      opposite_side == IF order.side = "YES" THEN "NO" ELSE "YES"
      min_opposite_price == 100 - order.price
      rows == {i \in DOMAIN S.orders :
                 /\ S.orders[i].market_id = order.market_id
                 /\ S.orders[i].side = opposite_side
                 /\ S.orders[i].order_type = order.order_type
                 /\ S.orders[i].price >= min_opposite_price
                 /\ S.orders[i].agent_id # order.agent_id}
  IN SortIds(rows, [i \in rows |-> 0 - S.orders[i].price])

\* Strategy 2: opposite side, same type, prices summing to at least 1.00.
complementary_query(S, oid) ==
  LET order == S.orders[oid]
      opposite_side == IF order.side = "YES" THEN "NO" ELSE "YES"
      min_opposite_price == 100 - order.price
      rows == {i \in DOMAIN S.orders :
                 /\ S.orders[i].market_id = order.market_id
                 /\ S.orders[i].side = opposite_side
                 /\ S.orders[i].order_type = order.order_type
                 /\ S.orders[i].status \in OpenStatus
                 /\ S.orders[i].price >= min_opposite_price
                 /\ S.orders[i].agent_id # order.agent_id}
  IN SortIds(rows, [i \in rows |-> 0 - S.orders[i].price])

\* Who buys, who sells and at what price, for incoming order oid and resting mid.
trade_terms(S, oid, mid) ==
  LET order == S.orders[oid]
      match == S.orders[mid]
  IN IF order.side = match.side
     THEN IF order.order_type = "buy"
          THEN [buyer_id |-> order.agent_id, seller_id |-> match.agent_id,
                buy_order_id |-> oid, sell_order_id |-> mid,
                price |-> match.price, side |-> order.side]
          ELSE [buyer_id |-> match.agent_id, seller_id |-> order.agent_id,
                buy_order_id |-> mid, sell_order_id |-> oid,
                price |-> order.price, side |-> order.side]
     ELSE IF order.side = "YES"
          THEN [buyer_id |-> order.agent_id, seller_id |-> match.agent_id,
                buy_order_id |-> oid, sell_order_id |-> mid,
                price |-> order.price, side |-> "YES"]
          ELSE [buyer_id |-> match.agent_id, seller_id |-> order.agent_id,
                buy_order_id |-> mid, sell_order_id |-> oid,
                price |-> match.price, side |-> "YES"]

fill_status(order) == IF order.filled >= order.size THEN "filled" ELSE "partial"

\* The status of both orders of a trade after their fills were added.
update_fill_status(S, oid, mid) ==
  [S EXCEPT !.orders[oid].status = fill_status(S.orders[oid]),
            !.orders[mid].status = fill_status(S.orders[mid])]

\* One iteration of the loop body of match_order, for a positive trade_size.
execute_match(S, oid, mid, trade_size) ==
  LET order == S.orders[oid]
      match == S.orders[mid]
      t == trade_terms(S, oid, mid)
      is_same_side == order.side = match.side
      S1 == IF is_same_side
            THEN update_position(
                   update_position(S, t.buyer_id, order.market_id, t.side, trade_size, t.price, TRUE),
                   t.seller_id, order.market_id, t.side, 0 - trade_size, t.price, FALSE)
            ELSE update_position(
                   update_position(S, t.buyer_id, order.market_id, "YES", trade_size, t.price, TRUE),
                   t.seller_id, order.market_id, "NO", trade_size, 100 - t.price, TRUE)
      trade_value == Cost(t.price, trade_size)
      buyer_fee == Rate(trade_value, TRADING_FEE_RATE)
      seller_fee == Rate(Cost(100 - t.price, trade_size), TRADING_FEE_RATE)
      trade == [market_id |-> order.market_id,
                buy_order_id |-> t.buy_order_id, sell_order_id |-> t.sell_order_id,
                buyer_id |-> t.buyer_id, seller_id |-> t.seller_id,
                side |-> t.side, price |-> t.price, size |-> trade_size,
                buyer_fee |-> buyer_fee, seller_fee |-> seller_fee]
      S2 == [S1 EXCEPT !.trades = Append(@, trade),
                       !.orders[oid].filled = @ + trade_size,
                       !.orders[mid].filled = @ + trade_size]
      S3 == update_fill_status(S2, oid, mid)
      S4 == settle_trade(S3, t.buyer_id, t.seller_id, t.price, trade_size, buyer_fee, seller_fee)
  IN record_trading_fee(S4, t.buyer_id, t.seller_id, buyer_fee, seller_fee, order.market_id)

\* Faulty variant: the loop stops after the first trade of the call.
RECURSIVE match_loop_first_trade(_, _, _)
match_loop_first_trade(S, oid, matching_orders) ==
  IF matching_orders = <<>> THEN S
  ELSE LET order == S.orders[oid]
           match == S.orders[Head(matching_orders)]
           trade_size == Min(order.size - order.filled, match.size - match.filled)
       IN IF order.filled >= order.size THEN S
          ELSE IF trade_size <= 0 THEN match_loop_first_trade(S, oid, Tail(matching_orders))
          ELSE execute_match(S, oid, Head(matching_orders), trade_size)

\* The for loop of match_order over the candidate list.
RECURSIVE match_loop(_, _, _)
match_loop(S, oid, matching_orders) ==
  IF matching_orders = <<>> THEN S
  ELSE LET order == S.orders[oid]
           match == S.orders[Head(matching_orders)]
           trade_size == Min(order.size - order.filled, match.size - match.filled)
       IN IF order.filled >= order.size THEN S
          ELSE IF trade_size <= 0 THEN match_loop(S, oid, Tail(matching_orders))
          ELSE match_loop(execute_match(S, oid, Head(matching_orders), trade_size),
                          oid, Tail(matching_orders))

\* Faulty variant: the first trade of the call sets the market price.
update_price_first_trade(S, S1, market_id) ==
  IF Len(S1.trades) > Len(S.trades)
  THEN update_market_price(S1, market_id, S1.trades[Len(S.trades) + 1].price)
  ELSE S1

\* The last trade of the call, if there is one, sets the market price.
update_price_after(S, S1, market_id) ==
  IF Len(S1.trades) > Len(S.trades)
  THEN update_market_price(S1, market_id, S1.trades[Len(S1.trades)].price)
  ELSE S1

\* Faulty variant: the complementary candidates are tried first.
match_order_complementary_first(S, oid) ==
  LET order == S.orders[oid]
      matching_orders == complementary_query(S, oid) \o same_side_query(S, oid)
  IN update_price_after(S, match_loop(S, oid, matching_orders), order.market_id)

match_order(S, oid) ==
  LET order == S.orders[oid]
      matching_orders == same_side_query(S, oid) \o
                         (IF order.filled < order.size THEN complementary_query(S, oid) ELSE <<>>)
  IN update_price_after(S, match_loop(S, oid, matching_orders), order.market_id)

\* ------------------------------------------------------ request results
\* What a request handler answers (status is the HTTP status code) and the
\* session it leaves to be committed.  A handler that raises leaves S as it
\* was at its last commit.
Result(status, S) ==
  [status |-> status, S |-> S, order_id |-> 0, trades |-> 0, filled |-> 0, refunded |-> 0]

Order(agent_id, market_id, side, price, size) ==
  [agent_id |-> agent_id, market_id |-> market_id, side |-> side, order_type |-> "buy",
   price |-> price, size |-> size, filled |-> 0, status |-> "open"]

PendingAction(agent_id, action_type, market_id, side, price, size, order_id) ==
  [agent_id |-> agent_id, action_type |-> action_type, market_id |-> market_id,
   side |-> side, price |-> price, size |-> size, order_id |-> order_id,
   status |-> "pending"]

create_pending_action(S, action) == [S EXCEPT !.actions = Append(@, action)]

\* The sum of trade.price * trade.size over the trades after the first n.
NewVolume(S, n) ==
  SumSeq([i \in 1..(Len(S.trades) - n) |-> Cost(S.trades[n + i].price, S.trades[n + i].size)])

\* The answer to a placement: S is the session before the request, S2 the
\* session to commit, Sm the session match_order reported on.
OrderResponse(S, S2, Sm, oid) ==
  [Result(200, S2) EXCEPT !.order_id = oid,
                          !.trades = Len(Sm.trades) - Len(S.trades),
                          !.filled = Sm.orders[oid].filled]

\* market.volume raised by the value of the trades made since session S.
add_volume(S, S2, market_id) ==
  [S2 EXCEPT !.markets[market_id].volume = @ + NewVolume(S2, Len(S.trades))]

\* The answer to a placement whose match_order result is committed.
placed(S, S2, oid) == OrderResponse(S, S2, S2, oid)

\* -------------------------------------------------------- POST /orders
place_order(S, agent_id, market_id, side, order_type, price, size) ==
  IF agent_id \notin DOMAIN S.agents THEN Result(404, S)
  ELSE IF ~can_trade(S.agents[agent_id]) THEN Result(403, S)
  ELSE IF S.markets[market_id].status = "none" THEN Result(404, S)
  ELSE IF S.markets[market_id].status # "open" THEN Result(400, S)
  ELSE IF S.agents[agent_id].trading_mode = "manual"
  THEN IF available_balance(S.agents[agent_id]) < Cost(price, size)
       THEN Result(400, S)
       ELSE Result(202, create_pending_action(S,
              PendingAction(agent_id, "place_order", market_id, side, price, size, 0)))
  ELSE LET locked == lock_balance_for_order(S, agent_id, price, size) IN
       IF ~locked.ok THEN Result(400, S)
       ELSE LET oid == Len(S.orders) + 1
                S1 == [locked.S EXCEPT
                         !.orders = Append(@, Order(agent_id, market_id, side, price, size))]
            IN placed(S, add_volume(S, match_order(S1, oid), market_id), oid)

\* ------------------------------------------------ DELETE /orders/{id}
\* Faulty variant: the order's status is not checked.
cancel_order_any_status(S, order_id, agent_id) ==
  IF order_id \notin DOMAIN S.orders THEN Result(404, S)
  ELSE IF S.orders[order_id].agent_id # agent_id THEN Result(403, S)
  ELSE IF S.agents[agent_id].trading_mode = "manual"
  THEN [Result(202, create_pending_action(S,
          PendingAction(agent_id, "cancel_order", 0, "none", 0, 0, order_id)))
        EXCEPT !.order_id = order_id]
  ELSE LET order == S.orders[order_id]
           unfilled == order.size - order.filled
           r == unlock_balance_for_cancelled_order(S, agent_id, order.price, unfilled)
           S1 == [r.S EXCEPT !.orders[order_id].status = "cancelled"]
       IN [Result(200, S1) EXCEPT !.order_id = order_id, !.refunded = r.refund]

cancel_order(S, order_id, agent_id) ==
  IF order_id \notin DOMAIN S.orders THEN Result(404, S)
  ELSE IF S.orders[order_id].agent_id # agent_id THEN Result(403, S)
  ELSE IF S.orders[order_id].status \notin OpenStatus THEN Result(400, S)
  ELSE IF S.agents[agent_id].trading_mode = "manual"
  THEN [Result(202, create_pending_action(S,
          PendingAction(agent_id, "cancel_order", 0, "none", 0, 0, order_id)))
        EXCEPT !.order_id = order_id]
  ELSE LET order == S.orders[order_id]
           unfilled == order.size - order.filled
           r == unlock_balance_for_cancelled_order(S, agent_id, order.price, unfilled)
           S1 == [r.S EXCEPT !.orders[order_id].status = "cancelled"]
       IN [Result(200, S1) EXCEPT !.order_id = order_id, !.refunded = r.refund]

\* ----------------------------------------- manual-mode approval queue
\* Each returns [ok, S, ...]: ok = FALSE stands for a raised ValueError.
execute_place_order(S, action) ==
  LET agent_id == action.agent_id
      market_id == action.market_id
      cost == Cost(action.price, action.size)
      fail == Result(400, S)
  IN IF agent_id \notin DOMAIN S.agents THEN fail
     ELSE IF ~can_trade(S.agents[agent_id]) THEN fail
     ELSE IF S.markets[market_id].status = "none" THEN fail
     ELSE IF S.markets[market_id].status # "open" THEN fail
     ELSE IF available_balance(S.agents[agent_id]) < cost THEN fail
     ELSE LET oid == Len(S.orders) + 1
              S1 == [S EXCEPT !.agents[agent_id].locked_balance = @ + cost,
                              !.orders = Append(@, Order(agent_id, market_id, action.side,
                                                         action.price, action.size))]
          IN placed(S, match_order(S1, oid), oid)

execute_cancel_order(S, action) ==
  LET order_id == action.order_id
      agent_id == action.agent_id
  IN IF order_id \notin DOMAIN S.orders THEN Result(400, S)
     ELSE IF S.orders[order_id].agent_id # agent_id THEN Result(400, S)
     ELSE IF S.orders[order_id].status \notin OpenStatus THEN Result(400, S)
     ELSE LET order == S.orders[order_id]
              unfilled == order.size - order.filled
              refund_amount == Cost(order.price, unfilled)
              S1 == [S EXCEPT !.agents[agent_id].locked_balance = @ - refund_amount,
                              !.orders[order_id].status = "cancelled"]
          IN [Result(200, S1) EXCEPT !.order_id = order_id, !.refunded = refund_amount]

execute_pending_action(S, action) ==
  IF action.action_type = "place_order" THEN execute_place_order(S, action)
  ELSE IF action.action_type = "cancel_order" THEN execute_cancel_order(S, action)
  ELSE Result(400, S)

\* Faulty variant: the action is marked approved whatever the execution
\* answered.
mark_approved_always(S, r, action_id) ==
  [r EXCEPT !.status = 200, !.S.actions[action_id].status = "approved"]

\* r is what execute_pending_action answered: on success the action is
\* marked approved, on failure it stays pending and nothing is committed.
mark_approved(S, r, action_id) ==
  IF r.status # 200 THEN Result(400, S)
  ELSE [r EXCEPT !.S.actions[action_id].status = "approved"]

approve_pending_action(S, action_id, agent_id) ==
  IF action_id \notin DOMAIN S.actions THEN Result(404, S)
  ELSE IF S.actions[action_id].agent_id # agent_id THEN Result(403, S)
  ELSE IF S.actions[action_id].status # "pending" THEN Result(400, S)
  ELSE mark_approved(S, execute_pending_action(S, S.actions[action_id]), action_id)

reject_pending_action(S, action_id, agent_id) ==
  IF action_id \notin DOMAIN S.actions THEN Result(404, S)
  ELSE IF S.actions[action_id].agent_id # agent_id THEN Result(403, S)
  ELSE IF S.actions[action_id].status # "pending" THEN Result(400, S)
  ELSE Result(200, [S EXCEPT !.actions[action_id].status = "rejected"])

\* ------------------------------------------ PATCH /agents/{id}/settings
update_agent_settings(S, agent_id, trading_mode) ==
  IF agent_id \notin DOMAIN S.agents THEN Result(404, S)
  ELSE Result(200, [S EXCEPT !.agents[agent_id].trading_mode = trading_mode])

\* ------------------------------------------- POST /wallet/{id}/transfer
transfer_tokens(S, agent_id, to_agent_id, amount) ==
  IF agent_id \notin DOMAIN S.agents THEN Result(404, S)
  ELSE IF available_balance(S.agents[agent_id]) < amount THEN Result(400, S)
  ELSE IF to_agent_id \notin DOMAIN S.agents THEN Result(404, S)
  ELSE IF agent_id = to_agent_id THEN Result(400, S)
  ELSE Result(200, [S EXCEPT !.agents[agent_id].balance = @ - amount,
                             !.agents[to_agent_id].balance = @ + amount])

\* ------------------------------------------------------- POST /markets
create_market(S, creator_id, market_id) ==
  IF creator_id \notin DOMAIN S.agents THEN Result(404, S)
  ELSE IF available_balance(S.agents[creator_id]) < MARKET_CREATION_FEE THEN Result(400, S)
  ELSE LET S1 == [S EXCEPT !.agents[creator_id].balance = @ - MARKET_CREATION_FEE,
                           !.markets[market_id] = Market,
                           !.fees = Append(@, PlatformFee("market_creation",
                                              MARKET_CREATION_FEE, creator_id, market_id))]
       IN Result(200, update_platform_stats(S1, 0, MARKET_CREATION_FEE, 0, 0, 1, 0))

\* ------------------------------------------------ POST /api/v1/markets
\* The agent API's create_market: the fee is deducted and counted in the
\* statistics; no PlatformFee row is added.
create_market_v1(S, creator_id, market_id) ==
  IF creator_id \notin DOMAIN S.agents THEN Result(401, S)
  ELSE IF ~can_trade(S.agents[creator_id]) THEN Result(403, S)
  ELSE IF available_balance(S.agents[creator_id]) < MARKET_CREATION_FEE THEN Result(400, S)
  ELSE LET S1 == [S EXCEPT !.agents[creator_id].balance = @ - MARKET_CREATION_FEE,
                           !.markets[market_id] = Market]
       IN Result(200, update_platform_stats(S1, 0, MARKET_CREATION_FEE, 0, 0, 1, 0))

\* ---------------------------------------- POST /api/v1/markets/{id}/bets
\* The order and the lock are committed before match_order runs; nothing is
\* committed after it, so what match_order did is rolled back when the
\* session closes, while the response reports it.
place_bet(S, agent_id, market_id, side, price, size) ==
  IF agent_id \notin DOMAIN S.agents THEN Result(401, S)
  ELSE IF ~can_trade(S.agents[agent_id]) THEN Result(403, S)
  ELSE IF S.markets[market_id].status = "none" THEN Result(404, S)
  ELSE IF S.markets[market_id].status # "open" THEN Result(400, S)
  ELSE IF available_balance(S.agents[agent_id]) < Cost(price, size) THEN Result(400, S)
  ELSE LET oid == Len(S.orders) + 1
           S1 == [S EXCEPT !.agents[agent_id].locked_balance = @ + Cost(price, size),
                           !.orders = Append(@, Order(agent_id, market_id, side, price, size))]
       IN OrderResponse(S, S1, match_order(S1, oid), oid)

\* ------------------------------------- an error inside the matching loop
\* The handlers when match_order raises after its first trade (a database
\* error, a timeout): the answer is the error, S what was committed before.
\* place_order commits once, after match_order: nothing is committed.
place_order_raising(S, agent_id, market_id, side, order_type, price, size) ==
  LET r == place_order(S, agent_id, market_id, side, order_type, price, size)
  IN IF r.status = 200 /\ r.trades >= 1 THEN Result(500, S) ELSE r

\* _execute_place_order commits the lock and the order before match_order.
execute_place_order_raising(S, action) ==
  LET r == execute_place_order(S, action)
      S1 == [S EXCEPT !.agents[action.agent_id].locked_balance =
                         @ + Cost(action.price, action.size),
                      !.orders = Append(@, Order(action.agent_id, action.market_id,
                                                 action.side, action.price, action.size))]
  IN IF r.status = 200 /\ r.trades >= 1 THEN Result(500, S1) ELSE r

\* approve_pending_action turns the exception into a 400 and leaves the
\* action pending.
approve_pending_action_raising(S, action_id, agent_id) ==
  IF action_id \notin DOMAIN S.actions THEN Result(404, S)
  ELSE IF S.actions[action_id].agent_id # agent_id THEN Result(403, S)
  ELSE IF S.actions[action_id].status # "pending" THEN Result(400, S)
  ELSE IF S.actions[action_id].action_type # "place_order"
  THEN mark_approved(S, execute_pending_action(S, S.actions[action_id]), action_id)
  ELSE LET r == execute_place_order_raising(S, S.actions[action_id])
       IN IF r.status = 500 THEN r ELSE mark_approved(S, r, action_id)

\* place_bet commits the lock and the order before match_order.
place_bet_raising(S, agent_id, market_id, side, price, size) ==
  LET r == place_bet(S, agent_id, market_id, side, price, size)
  IN IF r.status = 200 /\ r.trades >= 1 THEN Result(500, r.S) ELSE r

\* -------------------------------------------------- resolution / payout
\* The order in which the Position rows of a market are visited.
PositionRows == <<"alice", "bob", "mod">>

winning_shares(position, outcome) ==
  IF outcome = "YES" THEN position.yes_shares ELSE position.no_shares

winning_avg_price(position, outcome) ==
  IF outcome = "YES" THEN position.avg_yes_price ELSE position.avg_no_price

gross_payout(position, outcome) == winning_shares(position, outcome) * UnitsPerToken

\* avg_price * shares, in units
cost_basis(position, outcome) ==
  LET avg_price == winning_avg_price(position, outcome)
  IN (avg_price[1] * winning_shares(position, outcome) * UnitsPerCent) \div avg_price[2]

profit(position, outcome) == gross_payout(position, outcome) - cost_basis(position, outcome)

\* Faulty variant: the fee is taken from the whole payout, principal included.
settlement_fee_on_payout(position, outcome) ==
  IF winning_avg_price(position, outcome)[1] # 0
  THEN Max(0, Rate(gross_payout(position, outcome), SETTLEMENT_FEE_RATE))
  ELSE 0

settlement_fee(position, outcome) ==
  IF winning_avg_price(position, outcome)[1] # 0
  THEN Max(0, Rate(profit(position, outcome), SETTLEMENT_FEE_RATE))
  ELSE 0

\* Faulty variant: the shares of the losing side are paid out as well.
RECURSIVE payout_loop_both_sides(_, _, _, _)
payout_loop_both_sides(S, market_id, outcome, rows) ==
  IF rows = <<>> THEN S
  ELSE LET agent_id == Head(rows)
           position == S.positions[<<agent_id, market_id>>]
           paid == (position.yes_shares + position.no_shares) * UnitsPerToken
           S1 == IF paid > 0
                 THEN [S EXCEPT !.agents[agent_id].balance = @ + paid]
                 ELSE S
       IN payout_loop_both_sides(S1, market_id, outcome, Tail(rows))

\* The first loop over positions: credit the winners, record the fees.
RECURSIVE payout_loop(_, _, _, _)
payout_loop(S, market_id, outcome, rows) ==
  IF rows = <<>> THEN S
  ELSE LET agent_id == Head(rows)
           position == S.positions[<<agent_id, market_id>>]
           fee == settlement_fee(position, outcome)
           net_payout == gross_payout(position, outcome) - fee
           S1 == IF gross_payout(position, outcome) > 0
                 THEN [S EXCEPT !.agents[agent_id].balance = @ + net_payout,
                                !.fees = IF fee > 0
                                         THEN Append(@, PlatformFee("settlement", fee, agent_id, market_id))
                                         ELSE @]
                 ELSE S
       IN payout_loop(S1, market_id, outcome, Tail(rows))

total_settlement_fees(S, market_id, outcome) ==
  SumSeq([i \in 1..Len(PositionRows) |->
            LET position == S.positions[<<PositionRows[i], market_id>>]
            IN IF gross_payout(position, outcome) > 0
               THEN settlement_fee(position, outcome) ELSE 0])

total_winner_profits(S, market_id, outcome) ==
  SumSeq([i \in 1..Len(PositionRows) |->
            LET position == S.positions[<<PositionRows[i], market_id>>]
            IN IF /\ winning_shares(position, outcome) > 0
                  /\ winning_avg_price(position, outcome)[1] # 0
                  /\ profit(position, outcome) > 0
               THEN profit(position, outcome) ELSE 0])

\* Faulty variant: the lock of the whole order is released, filled part included.
RECURSIVE cancel_and_unlock_all(_, _, _)
cancel_and_unlock_all(S, market_id, i) ==
  IF i > Len(S.orders) THEN S
  ELSE LET order == S.orders[i]
           S1 == IF order.market_id = market_id /\ order.status \in OpenStatus
                 THEN [S EXCEPT !.agents[order.agent_id].locked_balance =
                                   @ - Cost(order.price, order.size),
                                !.orders[i].status = "cancelled"]
                 ELSE S
       IN cancel_and_unlock_all(S1, market_id, i + 1)

\* Cancel every open or partial order of the market, unlocking its remainder.
RECURSIVE cancel_open_orders(_, _, _)
cancel_open_orders(S, market_id, i) ==
  IF i > Len(S.orders) THEN S
  ELSE LET order == S.orders[i]
           unfilled == order.size - order.filled
           S1 == IF order.market_id = market_id /\ order.status \in OpenStatus
                 THEN [S EXCEPT !.agents[order.agent_id].locked_balance =
                                   IF unfilled > 0 THEN @ - Cost(order.price, unfilled) ELSE @,
                                !.orders[i].status = "cancelled"]
                 ELSE S
       IN cancel_open_orders(S1, market_id, i + 1)

\* Faulty variant: the recorded total leaves out the winner fee.
ModeratorRewardShareOnly(moderator_id, market_id, platform_share, winner_fee, winner_profits) ==
  [moderator_id |-> moderator_id, market_id |-> market_id,
   platform_share |-> platform_share, winner_fee |-> winner_fee,
   total_reward |-> platform_share, total_winner_profits |-> winner_profits]

ModeratorReward(moderator_id, market_id, platform_share, winner_fee, winner_profits) ==
  [moderator_id |-> moderator_id, market_id |-> market_id,
   platform_share |-> platform_share, winner_fee |-> winner_fee,
   total_reward |-> platform_share + winner_fee, total_winner_profits |-> winner_profits]

\* resolve_market after its validation: mark the market, cancel its open
\* orders, pay the winners, reward the moderator, update the statistics.
settle_market(S, market_id, outcome, moderator_id) ==
  LET S1 == [S EXCEPT !.markets[market_id].status = "resolved",
                      !.markets[market_id].outcome = outcome,
                      !.markets[market_id].resolved_by = moderator_id]
      S2 == cancel_open_orders(S1, market_id, 1)
      S3 == payout_loop(S2, market_id, outcome, PositionRows)
      fees_total == total_settlement_fees(S2, market_id, outcome)
      moderator_platform_share == Rate(fees_total, MODERATOR_PLATFORM_SHARE)
      winner_profits == total_winner_profits(S2, market_id, outcome)
      moderator_winner_fee == Rate(winner_profits, MODERATOR_WINNER_FEE)
      total_moderator_reward == moderator_platform_share + moderator_winner_fee
      S4 == IF total_moderator_reward > 0 /\ moderator_id \in DOMAIN S3.agents
            THEN [S3 EXCEPT !.agents[moderator_id].balance = @ + total_moderator_reward,
                            !.rewards = Append(@, ModeratorReward(moderator_id, market_id,
                                           moderator_platform_share, moderator_winner_fee,
                                           winner_profits))]
            ELSE S3
      net_platform_fee == fees_total - moderator_platform_share
  IN update_platform_stats(S4, 0, 0, net_platform_fee, 0, 0, 1)

\* Faulty variant: a market that is already resolved is resolved again.
resolve_market_again(S, market_id, outcome, moderator_id) ==
  IF S.markets[market_id].status = "none" THEN [ok |-> FALSE, S |-> S]
  ELSE [ok |-> TRUE, S |-> settle_market(S, market_id, outcome, moderator_id)]

\* Returns [ok, S]; ok = FALSE stands for a raised ValueError.
resolve_market(S, market_id, outcome, moderator_id) ==
  IF S.markets[market_id].status = "none" THEN [ok |-> FALSE, S |-> S]
  ELSE IF S.markets[market_id].status = "resolved" THEN [ok |-> FALSE, S |-> S]
  ELSE [ok |-> TRUE, S |-> settle_market(S, market_id, outcome, moderator_id)]

\* The maintenance job: every open market whose deadline has passed is
\* closed.  expired is the set of markets whose deadline has passed.
close_expired_markets(S, expired) ==
  Result(200, [S EXCEPT !.markets = [m \in Markets |->
                 IF m \in expired /\ S.markets[m].status = "open"
                 THEN [S.markets[m] EXCEPT !.status = "closed"]
                 ELSE S.markets[m]]])

\* ------------------------------------------ POST /markets/{id}/resolve
resolve_market_endpoint(S, market_id, outcome, moderator_id) ==
  IF moderator_id \notin DOMAIN S.agents THEN Result(404, S)
  ELSE IF ~can_resolve(S.agents[moderator_id]) THEN Result(403, S)
  ELSE LET r == resolve_market(S, market_id, outcome, moderator_id) IN
       IF r.ok THEN Result(200, r.S) ELSE Result(400, S)

\* ------------------------------------------------ the engine on its own
\* The auto-mode path of place_order with the Order row given the order type
\* of the request: match_order on books that hold BUY and SELL orders.
engine_order(S, agent_id, market_id, side, order_type, price, size) ==
  IF ~can_trade(S.agents[agent_id]) \/ S.markets[market_id].status # "open"
  THEN Result(400, S)
  ELSE LET locked == lock_balance_for_order(S, agent_id, price, size) IN
       IF ~locked.ok THEN Result(400, S)
       ELSE LET oid == Len(S.orders) + 1
                S1 == [locked.S EXCEPT
                         !.orders = Append(@, [Order(agent_id, market_id, side, price, size)
                                                 EXCEPT !.order_type = order_type])]
            IN placed(S, match_order(S1, oid), oid)

\* ------------------------------------------- requests running concurrently
\* A handler is a coroutine: at every await another request may run.  Each
\* request has its own AsyncSession, whose identity map keeps the rows it
\* has loaded: a later SELECT of a row that is already in the map, with or
\* without with_for_update(), hands back the object with the attribute
\* values of the first load.  What the request changes is written when it
\* commits, attribute by attribute: an UPDATE sets the changed columns to
\* the values computed in the handler.
\*
\* The database is "sqlite" (the default DATABASE_URL), where
\* with_for_update() takes no lock, or "postgresql", where it locks the
\* selected rows until the transaction ends and a SELECT ... FOR UPDATE of
\* a locked row waits.
Requests == 1..MaxRequests

Databases == {"sqlite", "postgresql"}

\* A request slot: pc is the await the handler is suspended at, *_rows the
\* rows in the identity map (sets of [id, row]), matching_orders the result
\* of the candidate queries, *_locks the row locks the transaction holds.
NoRequest ==
  [pc |-> "idle", agent_id |-> NoAgent, market_id |-> 0, side |-> "none",
   order_type |-> "none", price |-> 0, size |-> 0, order_id |-> 0,
   action_id |-> 0,
   agent_rows |-> {}, market_rows |-> {}, order_rows |-> {}, matching_orders |-> <<>>,
   agent_locks |-> {}, order_locks |-> {}]

\* The row with this id as the session sees it: the object in the identity
\* map if it is there, the row of the database otherwise.
RowOf(rows, id, fresh) ==
  IF \E c \in rows : c.id = id THEN (CHOOSE c \in rows : c.id = id).row ELSE fresh

\* The database S as the session of request rq sees it.
View(S, rq) ==
  [S EXCEPT !.agents = [a \in DOMAIN S.agents |-> RowOf(rq.agent_rows, a, S.agents[a])],
            !.markets = [m \in DOMAIN S.markets |-> RowOf(rq.market_rows, m, S.markets[m])],
            !.orders = [i \in DOMAIN S.orders |-> RowOf(rq.order_rows, i, S.orders[i])]]

\* The UPDATE of one row: the attributes the handler changed (new differs
\* from what the session had loaded) are written, the others are left as
\* they are in the database.
MergeRow(stored, loaded, new) ==
  [f \in DOMAIN stored |-> IF new[f] # loaded[f] THEN new[f] ELSE stored[f]]

\* The database after the session that saw V and turned it into V2 has
\* flushed and committed on top of S.
Merge(S, V, V2) ==
  [V2 EXCEPT
     !.agents = [a \in DOMAIN S.agents |-> MergeRow(S.agents[a], V.agents[a], V2.agents[a])],
     !.markets = [m \in DOMAIN S.markets |-> MergeRow(S.markets[m], V.markets[m], V2.markets[m])],
     !.orders = [i \in DOMAIN V2.orders |->
                   IF i \in DOMAIN S.orders
                   THEN MergeRow(S.orders[i], V.orders[i], V2.orders[i])
                   ELSE V2.orders[i]]]

\* The candidates match_order selects for a new order of request rq, in the
\* order of the two queries.
candidate_orders(S, rq) ==
  LET oid == Len(S.orders) + 1
      S1 == [S EXCEPT !.orders = Append(@, Order(rq.agent_id, rq.market_id, rq.side,
                                                   rq.price, rq.size))]
  IN same_side_query(S1, oid) \o complementary_query(S1, oid)

\* The auto-mode path of place_order from lock_balance_for_order on, with
\* the loop of match_order running over the candidates selected before.
place_order_matching(S, rq) ==
  LET locked == lock_balance_for_order(S, rq.agent_id, rq.price, rq.size) IN
  IF ~locked.ok THEN Result(400, S)
  ELSE LET oid == Len(S.orders) + 1
           S1 == [locked.S EXCEPT
                    !.orders = Append(@, Order(rq.agent_id, rq.market_id, rq.side,
                                               rq.price, rq.size))]
           S2 == update_price_after(S1, match_loop(S1, oid, rq.matching_orders),
                                    rq.market_id)
       IN placed(S, add_volume(S, S2, rq.market_id), oid)

\* The rows locked by the transactions of the other requests.
AgentLocksOfOthers(q) == UNION {reqs[p].agent_locks : p \in Requests \ {q}}
OrderLocksOfOthers(q) == UNION {reqs[p].order_locks : p \in Requests \ {q}}

\* Request q can lock these rows now.
CanLock(q, database, agent_ids, order_ids) ==
  \/ database = "sqlite"
  \/ /\ agent_ids \cap AgentLocksOfOthers(q) = {}
     /\ order_ids \cap OrderLocksOfOthers(q) = {}

\* The locks a transaction holds after locking these rows.
Locked(database, held, ids) == IF database = "sqlite" THEN held ELSE held \cup ids

\* The rows the next SELECT ... FOR UPDATE of request q locks.
NextAgentLocks(q) ==
  LET rq == reqs[q] IN
  IF rq.pc \in {"place_loaded", "cancel_agent"} THEN {rq.agent_id}
  ELSE IF rq.pc = "place_locked"
  THEN {orders[rq.matching_orders[i]].agent_id : i \in DOMAIN rq.matching_orders}
  ELSE {}

NextOrderLocks(q) ==
  LET rq == reqs[q] IN
  IF rq.pc = "place_loaded"
  THEN {candidate_orders(Session, rq)[i] : i \in DOMAIN candidate_orders(Session, rq)}
  ELSE {}

InitBalance == [a \in Agents |->
                  IF a = "alice" THEN 120000 ELSE IF a = "bob" THEN 80000 ELSE 1000000]

Init ==
  /\ agents = [a \in Agents |->
                 Agent(IF a \in Moderators THEN "moderator" ELSE "trader", "auto", InitBalance[a])]
  /\ markets = [m \in Markets |-> IF m = 1 THEN Market ELSE NoMarket]
  /\ orders = <<>>
  /\ positions = [k \in Agents \X Markets |-> Position]
  /\ trades = <<>>
  /\ fees = <<>>
  /\ stats = PlatformStats
  /\ rewards = <<>>
  /\ actions = <<>>
  /\ transfers = 0
  /\ mode_changes = 0
  /\ last = [op |-> "init", agent_id |-> NoAgent, status |-> 200,
             order_id |-> 0, trades |-> 0, filled |-> 0, refunded |-> 0]
  /\ reqs = [q \in Requests |-> NoRequest]

\* The initial state with a trader who can pay the market creation fee.
FundedBalance == [a \in Agents |->
                    IF a = "alice" THEN 1040000 ELSE IF a = "bob" THEN 80000 ELSE 1000000]

InitFunded ==
  /\ agents = [a \in Agents |->
                 Agent(IF a \in Moderators THEN "moderator" ELSE "trader", "auto", FundedBalance[a])]
  /\ markets = [m \in Markets |-> IF m = 1 THEN Market ELSE NoMarket]
  /\ orders = <<>>
  /\ positions = [k \in Agents \X Markets |-> Position]
  /\ trades = <<>>
  /\ fees = <<>>
  /\ stats = PlatformStats
  /\ rewards = <<>>
  /\ actions = <<>>
  /\ transfers = 0
  /\ mode_changes = 0
  /\ last = [op |-> "init", agent_id |-> NoAgent, status |-> 200,
             order_id |-> 0, trades |-> 0, filled |-> 0, refunded |-> 0]
  /\ reqs = [q \in Requests |-> NoRequest]

\* ------------------------------------------------------------- requests
\* A request that is answered with an error commits nothing and is a
\* stuttering step; an accepted request commits r.S and leaves its answer
\* in last.  max_orders bounds the number of Order rows.
Commit(op, agent_id, r, max_orders) ==
  /\ r.status \in {200, 202}
  /\ Len(r.S.orders) <= max_orders
  /\ Len(r.S.actions) <= MaxActions
  /\ agents' = r.S.agents
  /\ markets' = r.S.markets
  /\ orders' = r.S.orders
  /\ positions' = r.S.positions
  /\ trades' = r.S.trades
  /\ fees' = r.S.fees
  /\ stats' = r.S.stats
  /\ rewards' = r.S.rewards
  /\ actions' = r.S.actions
  /\ last' = [op |-> op, agent_id |-> agent_id,
              status |-> r.status, order_id |-> r.order_id, trades |-> r.trades,
              filled |-> r.filled, refunded |-> r.refunded]
  /\ UNCHANGED reqs

PlaceOrder(max_orders) ==
  \E agent_id \in Agents, market_id \in Markets, side \in Sides,
     order_type \in OrderTypes, price \in Prices, size \in Sizes :
       /\ Commit("place_order", agent_id,
                 place_order(Session, agent_id, market_id, side, order_type, price, size),
                 max_orders)
       /\ UNCHANGED <<transfers, mode_changes>>

PlaceBet(max_orders) ==
  \E agent_id \in Agents, market_id \in Markets, side \in Sides,
     price \in Prices, size \in Sizes :
       /\ Commit("place_bet", agent_id,
                 place_bet(Session, agent_id, market_id, side, price, size), max_orders)
       /\ UNCHANGED <<transfers, mode_changes>>

CancelOrder ==
  \E order_id \in DOMAIN orders, agent_id \in Agents :
       /\ Commit("cancel_order", agent_id, cancel_order(Session, order_id, agent_id),
                 Len(orders))
       /\ UNCHANGED <<transfers, mode_changes>>

ApprovePendingAction(max_orders) ==
  \E action_id \in DOMAIN actions, agent_id \in Agents :
       /\ Commit("approve_pending_action", agent_id,
                 approve_pending_action(Session, action_id, agent_id), max_orders)
       /\ UNCHANGED <<transfers, mode_changes>>

\* A request that ends in an error raised inside the matching loop: what it
\* committed before the error stays.
Raise(op, agent_id, r, max_orders) ==
  /\ r.status = 500
  /\ Len(r.S.orders) <= max_orders
  /\ agents' = r.S.agents
  /\ markets' = r.S.markets
  /\ orders' = r.S.orders
  /\ positions' = r.S.positions
  /\ trades' = r.S.trades
  /\ fees' = r.S.fees
  /\ stats' = r.S.stats
  /\ rewards' = r.S.rewards
  /\ actions' = r.S.actions
  /\ last' = [op |-> op, agent_id |-> agent_id, status |-> r.status,
              order_id |-> 0, trades |-> 0, filled |-> 0, refunded |-> 0]
  /\ UNCHANGED reqs

PlaceOrderRaising(max_orders) ==
  \E agent_id \in Agents, market_id \in Markets, side \in Sides,
     order_type \in OrderTypes, price \in Prices, size \in Sizes :
       /\ Raise("place_order", agent_id,
                place_order_raising(Session, agent_id, market_id, side, order_type, price, size),
                max_orders)
       /\ UNCHANGED <<transfers, mode_changes>>

ApprovePendingActionRaising(max_orders) ==
  \E action_id \in DOMAIN actions, agent_id \in Agents :
       /\ Raise("approve_pending_action", agent_id,
                approve_pending_action_raising(Session, action_id, agent_id), max_orders)
       /\ UNCHANGED <<transfers, mode_changes>>

PlaceBetRaising(max_orders) ==
  \E agent_id \in Agents, market_id \in Markets, side \in Sides,
     price \in Prices, size \in Sizes :
       /\ Raise("place_bet", agent_id,
                place_bet_raising(Session, agent_id, market_id, side, price, size), max_orders)
       /\ UNCHANGED <<transfers, mode_changes>>

RejectPendingAction ==
  \E action_id \in DOMAIN actions, agent_id \in Agents :
       /\ Commit("reject_pending_action", agent_id,
                 reject_pending_action(Session, action_id, agent_id), Len(orders))
       /\ UNCHANGED <<transfers, mode_changes>>

UpdateAgentSettings ==
  \E agent_id \in Traders, trading_mode \in {"manual", "auto"} :
       /\ mode_changes < MaxModeChanges
       /\ agents[agent_id].trading_mode # trading_mode
       /\ Commit("update_agent_settings", agent_id,
                 update_agent_settings(Session, agent_id, trading_mode), Len(orders))
       /\ mode_changes' = mode_changes + 1
       /\ UNCHANGED transfers

TransferTokens ==
  \E agent_id \in Agents, to_agent_id \in Agents, amount \in TransferAmounts :
       /\ transfers < MaxTransfers
       /\ Commit("transfer_tokens", agent_id,
                 transfer_tokens(Session, agent_id, to_agent_id, amount), Len(orders))
       /\ transfers' = transfers + 1
       /\ UNCHANGED mode_changes

CreateMarket ==
  \E creator_id \in Agents, market_id \in Markets :
       /\ markets[market_id].status = "none"
       /\ Commit("create_market", creator_id,
                 create_market(Session, creator_id, market_id), Len(orders))
       /\ UNCHANGED <<transfers, mode_changes>>

CreateMarketV1 ==
  \E creator_id \in Agents, market_id \in Markets :
       /\ markets[market_id].status = "none"
       /\ Commit("create_market_v1", creator_id,
                 create_market_v1(Session, creator_id, market_id), Len(orders))
       /\ UNCHANGED <<transfers, mode_changes>>

ResolveMarket ==
  \E market_id \in Markets, outcome \in Sides, moderator_id \in Agents :
       /\ Commit("resolve_market", moderator_id,
                 resolve_market_endpoint(Session, market_id, outcome, moderator_id),
                 Len(orders))
       /\ UNCHANGED <<transfers, mode_changes>>

CloseExpiredMarkets ==
  \E expired \in SUBSET Markets :
       /\ \E m \in expired : markets[m].status = "open"
       /\ Commit("close_expired_markets", NoAgent,
                 close_expired_markets(Session, expired), Len(orders))
       /\ UNCHANGED <<transfers, mode_changes>>

EngineOrder ==
  \E agent_id \in Agents, market_id \in Markets, side \in Sides,
     order_type \in OrderTypes, price \in Prices, size \in Sizes :
       /\ Commit("match_order", agent_id,
                 engine_order(Session, agent_id, market_id, side, order_type, price, size),
                 MaxOrders)
       /\ UNCHANGED <<transfers, mode_changes>>

\* ------------------------------------------------- steps of the handlers
\* The handler of request q returns: what it did is committed on top of the
\* database, or nothing is when it answers with an error.
Return(q, op, V, r) ==
  LET S == IF r.status \in {200, 202} THEN Merge(Session, V, r.S) ELSE Session IN
  /\ agents' = S.agents
  /\ markets' = S.markets
  /\ orders' = S.orders
  /\ positions' = S.positions
  /\ trades' = S.trades
  /\ fees' = S.fees
  /\ stats' = S.stats
  /\ rewards' = S.rewards
  /\ actions' = S.actions
  /\ last' = IF r.status \in {200, 202}
             THEN [op |-> op, agent_id |-> reqs[q].agent_id,
                   status |-> r.status, order_id |-> r.order_id, trades |-> r.trades,
                   filled |-> r.filled, refunded |-> r.refunded]
             ELSE last
  /\ reqs' = [reqs EXCEPT ![q] = NoRequest]
  /\ UNCHANGED <<transfers, mode_changes>>

\* The request keeps running: only its slot changes.
Suspend(q, rq) ==
  /\ reqs' = [reqs EXCEPT ![q] = rq]
  /\ UNCHANGED <<agents, markets, orders, positions, trades, fees, stats, rewards,
                 actions, transfers, mode_changes, last>>

\* The Order rows there are and those the running placements will add.
OrdersInFlight ==
  Len(orders) + Cardinality({p \in Requests : reqs[p].pc \in {"place_loaded", "place_locked"}})

\* place_order up to its second await: the Agent and the Market are loaded
\* and validated.  Requests take the slots in the order of their arrival.
PlaceOrderLoad(q, max_orders) ==
  \E agent_id \in Agents, market_id \in Markets, side \in Sides,
     price \in Prices, size \in 1..MaxRaceSize :
       /\ reqs[q].pc = "idle"
       /\ \A p \in Requests : p < q => reqs[p].pc # "idle"
       /\ OrdersInFlight < max_orders
       /\ can_trade(agents[agent_id])
       /\ markets[market_id].status = "open"
       /\ Suspend(q, [NoRequest EXCEPT
                        !.pc = "place_loaded", !.agent_id = agent_id,
                        !.market_id = market_id, !.side = side, !.order_type = "buy",
                        !.price = price, !.size = size,
                        !.agent_rows = {[id |-> agent_id, row |-> agents[agent_id]]},
                        !.market_rows = {[id |-> market_id, row |-> markets[market_id]]}])

\* place_order from the trading mode check to the queries of match_order:
\* lock_balance_for_order checks the Agent object of the session, and the
\* candidates are selected.  A manual-mode request is queued and returns.
PlaceOrderLock(q, database) ==
  LET rq == reqs[q]
      V == View(Session, rq)
      matching_orders == candidate_orders(Session, rq)
      ids == {matching_orders[i] : i \in DOMAIN matching_orders}
  IN /\ rq.pc = "place_loaded"
     /\ IF V.agents[rq.agent_id].trading_mode = "manual"
        THEN Return(q, "place_order", V,
                    place_order(V, rq.agent_id, rq.market_id, rq.side, rq.order_type,
                                rq.price, rq.size))
        ELSE /\ CanLock(q, database, {rq.agent_id}, ids)
             /\ IF ~lock_balance_for_order(V, rq.agent_id, rq.price, rq.size).ok
                THEN Return(q, "place_order", V, Result(400, V))
                ELSE Suspend(q, [rq EXCEPT
                                   !.pc = "place_locked",
                                   !.matching_orders = matching_orders,
                                   !.order_rows = {[id |-> i, row |-> orders[i]] : i \in ids},
                                   !.agent_locks = Locked(database, @, {rq.agent_id}),
                                   !.order_locks = Locked(database, @, ids)])

\* The loop of match_order over the selected candidates, the volume update
\* and the commit.
PlaceOrderMatch(q, database) ==
  LET rq == reqs[q]
      V == View(Session, rq)
  IN /\ rq.pc = "place_locked"
     /\ CanLock(q, database, NextAgentLocks(q), {})
     /\ Return(q, "place_order", V, place_order_matching(V, rq))

\* cancel_order up to its second await: the Order is selected (for update)
\* and checked.
CancelOrderLoad(q, database) ==
  \E order_id \in DOMAIN orders, agent_id \in Agents :
       /\ reqs[q].pc = "idle"
       /\ \A p \in Requests : p < q => reqs[p].pc # "idle"
       /\ CanLock(q, database, {}, {order_id})
       /\ orders[order_id].agent_id = agent_id
       /\ orders[order_id].status \in OpenStatus
       /\ Suspend(q, [NoRequest EXCEPT
                        !.pc = "cancel_loaded", !.agent_id = agent_id,
                        !.order_id = order_id,
                        !.order_rows = {[id |-> order_id, row |-> orders[order_id]]},
                        !.order_locks = Locked(database, @, {order_id})])

\* cancel_order: session.get(Agent).
CancelOrderAgent(q) ==
  LET rq == reqs[q] IN
  /\ rq.pc = "cancel_loaded"
  /\ Suspend(q, [rq EXCEPT !.pc = "cancel_agent",
                           !.agent_rows = {[id |-> rq.agent_id, row |-> agents[rq.agent_id]]}])

\* cancel_order from the trading mode check to the commit.
CancelOrderCommit(q, database) ==
  LET rq == reqs[q]
      V == View(Session, rq)
  IN /\ rq.pc = "cancel_agent"
     /\ CanLock(q, database, {rq.agent_id}, {})
     /\ Return(q, "cancel_order", V, cancel_order(V, rq.order_id, rq.agent_id))

\* A request that waits for a row lock is given up (command_timeout, or a
\* deadlock the database breaks): its transaction is rolled back.
CommandTimeout(q) ==
  /\ reqs[q].pc # "idle"
  /\ ~CanLock(q, "postgresql", NextAgentLocks(q), NextOrderLocks(q))
  /\ Suspend(q, NoRequest)

\* The trading core: placement, cancellation and resolution.
Next ==
  \/ PlaceOrder(MaxOrders)
  \/ CancelOrder
  \/ ResolveMarket

Spec == Init /\ [][Next]_vars

\* The trading core behind the manual-mode approval queue.
NextQueue ==
  \/ PlaceOrder(MaxQueueOrders)
  \/ CancelOrder
  \/ ResolveMarket
  \/ UpdateAgentSettings
  \/ ApprovePendingAction(MaxQueueOrders)
  \/ RejectPendingAction

SpecQueue == Init /\ [][NextQueue]_vars

\* The trading core with transfers and market creation.
NextLedger ==
  \/ PlaceOrder(MaxLedgerOrders)
  \/ CancelOrder
  \/ ResolveMarket
  \/ TransferTokens
  \/ CreateMarket

SpecLedger == Init /\ [][NextLedger]_vars

\* Placement and the life cycle of markets: creation, closing, resolution.
NextLifecycle ==
  \/ PlaceOrder(MaxLifecycleOrders)
  \/ CreateMarket
  \/ CloseExpiredMarkets
  \/ ResolveMarket

SpecLifecycle == Init /\ [][NextLifecycle]_vars

\* Placement by traders whose wallets a transfer has topped up: books deep
\* enough for one order to trade against several resting orders.
NextSweep ==
  \/ PlaceOrder(MaxSweepOrders)
  \/ TransferTokens

SpecSweep == Init /\ [][NextSweep]_vars

\* Placements that run concurrently, on SQLite.
NextRace ==
  \E q \in Requests :
    \/ PlaceOrderLoad(q, MaxRaceOrders)
    \/ PlaceOrderLock(q, "sqlite")
    \/ PlaceOrderMatch(q, "sqlite")

SpecRace == Init /\ [][NextRace]_vars

\* Placements and cancellations that run concurrently, on SQLite.
NextRaceCancel ==
  \E q \in Requests :
    \/ PlaceOrderLoad(q, MaxCancelRaceOrders)
    \/ PlaceOrderLock(q, "sqlite")
    \/ PlaceOrderMatch(q, "sqlite")
    \/ CancelOrderLoad(q, "sqlite")
    \/ CancelOrderAgent(q)
    \/ CancelOrderCommit(q, "sqlite")

SpecRaceCancel == Init /\ [][NextRaceCancel]_vars

\* Placements and cancellations that run concurrently, on PostgreSQL.
NextRaceLocked ==
  \E q \in Requests :
    \/ PlaceOrderLoad(q, MaxCancelRaceOrders)
    \/ PlaceOrderLock(q, "postgresql")
    \/ PlaceOrderMatch(q, "postgresql")
    \/ CancelOrderLoad(q, "postgresql")
    \/ CancelOrderAgent(q)
    \/ CancelOrderCommit(q, "postgresql")
    \/ CommandTimeout(q)

SpecRaceLocked == Init /\ [][NextRaceLocked]_vars

\* approve_pending_action and reject_pending_action up to the await of
\* session.get(PendingAction): the row is read with no lock and checked for
\* its owner, its status and its expiry.  An action found expired is marked
\* expired, which is committed, and the request is answered 400; the clock
\* is the choice of is_expired.
ReviewLoad(q) ==
  \E action_id \in DOMAIN actions, agent_id \in Agents,
     decision \in {"approve_loaded", "reject_loaded"}, is_expired \in BOOLEAN :
       /\ reqs[q].pc = "idle"
       /\ \A p \in Requests : p < q => reqs[p].pc # "idle"
       /\ actions[action_id].agent_id = agent_id
       /\ actions[action_id].status = "pending"
       /\ IF is_expired
          THEN /\ actions' = [actions EXCEPT ![action_id].status = "expired"]
               /\ UNCHANGED <<agents, markets, orders, positions, trades, fees, stats,
                              rewards, transfers, mode_changes, last, reqs>>
          ELSE Suspend(q, [NoRequest EXCEPT !.pc = decision, !.agent_id = agent_id,
                                            !.action_id = action_id])

\* approve_pending_action from execute_pending_action to its commit: the
\* operation runs on the rows of the database, and the PendingAction object
\* loaded before is set to approved and written.
ApproveExecute(q, max_orders) ==
  LET action_id == reqs[q].action_id
      r == mark_approved(Session, execute_pending_action(Session, actions[action_id]),
                         action_id)
  IN /\ reqs[q].pc = "approve_loaded"
     /\ Len(r.S.orders) <= max_orders
     /\ Return(q, "approve_pending_action", Session, r)

\* reject_pending_action from the status assignment to its commit.
RejectCommit(q) ==
  /\ reqs[q].pc = "reject_loaded"
  /\ Return(q, "reject_pending_action", Session,
            Result(200, [Session EXCEPT !.actions[reqs[q].action_id].status = "rejected"]))

\* Placements that run concurrently with resolutions, on SQLite: a
\* resolution runs between two awaits of a placement.
NextRaceResolve ==
  \/ ResolveMarket
  \/ \E q \in Requests :
       \/ PlaceOrderLoad(q, MaxCancelRaceOrders)
       \/ PlaceOrderLock(q, "sqlite")
       \/ PlaceOrderMatch(q, "sqlite")

SpecRaceResolve == Init /\ [][NextRaceResolve]_vars

\* Placements that run concurrently, on PostgreSQL: the row locks are held
\* until the transaction ends.
NextRaceWait ==
  \E q \in Requests :
    \/ PlaceOrderLoad(q, MaxWaitOrders)
    \/ PlaceOrderLock(q, "postgresql")
    \/ PlaceOrderMatch(q, "postgresql")
    \/ CommandTimeout(q)

SpecRaceWait == Init /\ [][NextRaceWait]_vars

\* Placements in both trading modes, and reviews of the queued actions that
\* run concurrently.
NextReview ==
  \/ PlaceOrder(MaxQueueOrders)
  \/ UpdateAgentSettings
  \/ \E q \in Requests :
       \/ ReviewLoad(q)
       \/ ApproveExecute(q, MaxQueueOrders)
       \/ RejectCommit(q)

SpecReview == Init /\ [][NextReview]_vars

\* Trading, both ways of creating a market, and resolution.
NextFees ==
  \/ PlaceOrder(MaxFeeOrders)
  \/ CreateMarket
  \/ CreateMarketV1
  \/ ResolveMarket

SpecFees == InitFunded /\ [][NextFees]_vars

\* Placement on every entry point, with and without an error in the
\* matching loop.
NextFaults ==
  \/ PlaceOrder(MaxFaultOrders)
  \/ PlaceOrderRaising(MaxFaultOrders)
  \/ UpdateAgentSettings
  \/ ApprovePendingAction(MaxFaultOrders)
  \/ ApprovePendingActionRaising(MaxFaultOrders)
  \/ PlaceBet(MaxFaultOrders)
  \/ PlaceBetRaising(MaxFaultOrders)

SpecFaults == Init /\ [][NextFaults]_vars

\* The trading core with the bets of the agent API.
NextBet ==
  \/ PlaceOrder(MaxBetOrders)
  \/ PlaceBet(MaxBetOrders)
  \/ CancelOrder
  \/ ResolveMarket

SpecBet == Init /\ [][NextBet]_vars

\* The matching engine on books that hold orders of both types.
NextEngine ==
  \/ EngineOrder
  \/ ResolveMarket

SpecEngine == Init /\ [][NextEngine]_vars

\* ============================================================== claims
InitialSupply == SumFn(InitBalance, Agents)
TotalBalance == SumFn([a \in Agents |-> agents[a].balance], Agents)
PlatformRetained == stats.total_trading_fees + stats.total_settlement_fees
                    + stats.total_market_creation_fees
\* Every market on which a trade was executed is resolved.
TradedMarketsResolved ==
  /\ trades # <<>>
  /\ \A i \in DOMAIN trades : markets[trades[i].market_id].status = "resolved"

\* C1: every agent satisfies 0 <= locked_balance <= balance in every
\* reachable state, so the available balance is never negative.
C1_LockBound ==
  \A a \in Agents : /\ 0 <= agents[a].locked_balance
                    /\ agents[a].locked_balance <= agents[a].balance

\* C2: once the traded markets are resolved, the agents' balances plus the
\* fees the platform retained add up to the supply before the first trade:
\* trading and resolution create and destroy no tokens.
C2_Conservation ==
  TradedMarketsResolved => TotalBalance + PlatformRetained = InitialSupply

\* C3: the order created by an accepted place_order request has the
\* order_type the caller requested, SELL as well as BUY.
C3_OrderTypeStored ==
  \A agent_id \in Agents, market_id \in Markets, side \in Sides,
     order_type \in OrderTypes, price \in Prices, size \in Sizes :
       LET r == place_order(Session, agent_id, market_id, side, order_type, price, size)
       IN r.status = 200 => r.S.orders[r.order_id].order_type = order_type

\* ---------------------------------------------- steps that run match_order
\* A committed step in which match_order ran on a newly created order.
MatchStep ==
  /\ last'.op \in {"place_order", "approve_pending_action", "match_order"}
  /\ last'.status = 200
  /\ Len(orders') = Len(orders) + 1

\* Resting order r is open, in the market of the incoming order inc, on the
\* opposite side, of the same order type and owned by another agent.
Counterpart(inc, r) ==
  /\ orders[r].market_id = inc.market_id
  /\ orders[r].side # inc.side
  /\ orders[r].order_type = inc.order_type
  /\ orders[r].status \in OpenStatus
  /\ orders[r].agent_id # inc.agent_id

Eligible(inc, r) == Counterpart(inc, r) /\ inc.price + orders[r].price >= 100

\* The trades of the step between the incoming order and resting order r.
TradesWith(r) ==
  {i \in (Len(trades) + 1)..Len(trades') :
     {trades'[i].buy_order_id, trades'[i].sell_order_id} = {Len(orders'), r}}

\* C4: within one match_order call a resting order eligible for complementary
\* matching receives a fill only if every eligible resting order with a higher
\* price, or with the same price and an earlier creation time, traded too and
\* is completely filled; an incoming NO order trades at the resting YES
\* order's price.
C4_PriceTimePriority ==
  [][MatchStep =>
       LET inc == orders'[Len(orders')] IN
       \A r \in DOMAIN orders : (Eligible(inc, r) /\ TradesWith(r) # {}) =>
          /\ \A q \in DOMAIN orders :
               (/\ Eligible(inc, q)
                /\ \/ orders[q].price > orders[r].price
                   \/ orders[q].price = orders[r].price /\ q < r)
               => /\ TradesWith(q) # {}
                  /\ orders'[q].filled = orders'[q].size
          /\ inc.side = "NO" => \A i \in TradesWith(r) : trades'[i].price = orders[r].price
    ]_vars

\* An incoming NO order took the later, higher-priced of two eligible resting
\* YES orders and left the earlier, lower-priced one untouched.
C4_Witness ==
  /\ last.op = "place_order" /\ last.trades = 1
  /\ orders[last.order_id].side = "NO"
  /\ \E q, r \in DOMAIN orders :
       /\ q < r /\ r < last.order_id
       /\ orders[q].side = "YES" /\ orders[r].side = "YES"
       /\ orders[q].agent_id # orders[last.order_id].agent_id
       /\ orders[r].agent_id # orders[last.order_id].agent_id
       /\ orders[q].price < orders[r].price
       /\ orders[q].price + orders[last.order_id].price >= 100
       /\ orders[r].status = "filled"
       /\ orders[q].status = "open" /\ orders[q].filled = 0
       /\ trades[Len(trades)].buy_order_id = r
       /\ trades[Len(trades)].sell_order_id = last.order_id
       /\ trades[Len(trades)].price = orders[r].price

\* C5: an incoming order trades with an open resting order of the opposite
\* side, the same type and another agent only if their prices sum to at least
\* 1.00; when they do, the two trade unless the incoming order is filled
\* completely by resting orders of higher priority; a resting order that does
\* not trade is left as it was, and an incoming order without a fill is open.
C5_ComplementaryThreshold ==
  [][MatchStep =>
       LET inc == orders'[Len(orders')] IN
       /\ \A r \in DOMAIN orders : Counterpart(inc, r) =>
            /\ TradesWith(r) # {} => inc.price + orders[r].price >= 100
            /\ (inc.price + orders[r].price >= 100 /\ TradesWith(r) = {})
                 => inc.filled = inc.size
            /\ TradesWith(r) = {} => orders'[r] = orders[r]
       /\ inc.filled = 0 => inc.status = "open"
    ]_vars

\* The last placement traded with a resting order at prices summing to 1.00
\* exactly and keeps an unfilled remainder, while an open resting order of
\* the opposite side and another agent, whose price sums with the incoming
\* price to less than 1.00, is untouched.
C5_Witness ==
  /\ last.op = "place_order" /\ last.trades = 1
  /\ orders[last.order_id].status = "partial"
  /\ LET t == trades[Len(trades)] IN
       /\ last.order_id \in {t.buy_order_id, t.sell_order_id}
       /\ orders[t.buy_order_id].price + orders[t.sell_order_id].price = 100
  /\ \E q \in DOMAIN orders :
       /\ q < last.order_id
       /\ orders[q].status = "open" /\ orders[q].filled = 0
       /\ orders[q].market_id = orders[last.order_id].market_id
       /\ orders[q].side # orders[last.order_id].side
       /\ orders[q].agent_id # orders[last.order_id].agent_id
       /\ orders[q].price + orders[last.order_id].price < 100

\* The orders of trade t lie on opposite sides (a complementary match).
IsComplementary(t) == orders[t.buy_order_id].side # orders[t.sell_order_id].side

\* The resting order of trade t: the one created first.
Maker(t) == Min(t.buy_order_id, t.sell_order_id)

\* C6: in every complementary trade the maker's owner is charged the maker
\* order's price per share (and the taker's owner 1.00 minus that price),
\* whether the maker bought YES or NO.
C6_MakerSetsPrice ==
  \A i \in DOMAIN trades :
    LET t == trades[i] IN
    IsComplementary(t) =>
      (IF Maker(t) = t.buy_order_id THEN t.price ELSE 100 - t.price) = orders[Maker(t)].price

PriceCompatible(inc, r) ==
  /\ orders[r].market_id = inc.market_id
  /\ orders[r].status \in OpenStatus
  /\ \/ /\ orders[r].side = inc.side
        /\ orders[r].order_type # inc.order_type
        /\ IF inc.order_type = "buy" THEN orders[r].price <= inc.price
                                     ELSE orders[r].price >= inc.price
     \/ /\ orders[r].side # inc.side
        /\ orders[r].order_type = inc.order_type
        /\ orders[r].price + inc.price >= 100

\* C8: no trade has the same agent as buyer and seller, in either matching
\* relation; when every price-compatible resting order belongs to the placing
\* agent, the placement succeeds with zero trades and leaves those orders, and
\* the new one, open.
C8_NoSelfTrade ==
  /\ \A i \in DOMAIN trades :
       /\ trades[i].buyer_id # trades[i].seller_id
       /\ orders[trades[i].buy_order_id].agent_id # orders[trades[i].sell_order_id].agent_id
  /\ \A agent_id \in Agents, market_id \in Markets, side \in Sides,
        order_type \in OrderTypes, price \in Prices, size \in Sizes :
       LET inc == [Order(agent_id, market_id, side, price, size) EXCEPT !.order_type = order_type]
           own == {r \in DOMAIN orders : PriceCompatible(inc, r)}
           r == engine_order(Session, agent_id, market_id, side, order_type, price, size)
       IN (/\ own # {}
           /\ \A o \in own : orders[o].agent_id = agent_id
           /\ can_trade(agents[agent_id])
           /\ markets[market_id].status = "open"
           /\ available_balance(agents[agent_id]) >= Cost(price, size))
          => /\ r.status = 200 /\ r.trades = 0
             /\ r.S.trades = trades
             /\ \A o \in DOMAIN orders : r.S.orders[o] = orders[o]
             /\ r.S.orders[r.order_id].status = "open"
             /\ r.S.orders[r.order_id].filled = 0

\* The last match_order call made no trade although the book held an open,
\* price-compatible order of the same agent, which is still open.
C8_Witness ==
  /\ last.op = "match_order" /\ last.trades = 0
  /\ orders[last.order_id].status = "open"
  /\ \E r \in DOMAIN orders :
       /\ r < last.order_id
       /\ orders[r].agent_id = orders[last.order_id].agent_id
       /\ orders[r].status = "open"
       /\ PriceCompatible(orders[last.order_id], r)

\* A cancellation of order_id by agent_id has to be rejected.
NotCancellable(order_id, agent_id) ==
  \/ order_id \notin DOMAIN orders
  \/ orders[order_id].agent_id # agent_id
  \/ orders[order_id].status \notin OpenStatus

\* A rejected cancellation, direct or through an approval, changes nothing.
RejectedCancelChangesNothing ==
  /\ \A order_id \in 0..(Len(orders) + 1), agent_id \in Agents :
       LET r == cancel_order(Session, order_id, agent_id)
       IN NotCancellable(order_id, agent_id) => r.status \notin {200, 202} /\ r.S = Session
  /\ \A action_id \in DOMAIN actions, agent_id \in Agents :
       LET action == actions[action_id]
           r == approve_pending_action(Session, action_id, agent_id)
       IN (/\ action.action_type = "cancel_order"
           /\ \/ NotCancellable(action.order_id, action.agent_id)
              \/ action.agent_id # agent_id
              \/ action.status # "pending")
          => r.status \notin {200, 202} /\ r.S = Session

\* The locked tokens of agent a held by the orders this step cancels.
UnlockedBy(a) ==
  SumSeq([o \in DOMAIN orders |->
            IF /\ orders[o].agent_id = a
               /\ orders[o].status \in OpenStatus
               /\ orders'[o].status = "cancelled"
            THEN Cost(orders[o].price, remaining(orders[o])) ELSE 0])

\* An order that is cancelled or filled stays as it is, and a step that
\* cancels orders unlocks the remainder of each one it cancels, once.
UnlockedOnce ==
  /\ \A o \in DOMAIN orders :
       orders[o].status \in {"cancelled", "filled"} => orders'[o] = orders[o]
  /\ (last'.op \in {"cancel_order", "approve_pending_action"} /\ Len(orders') = Len(orders))
       => \A a \in Agents :
            /\ agents'[a].locked_balance = agents[a].locked_balance - UnlockedBy(a)
            /\ agents'[a].balance = agents[a].balance

\* C9: cancel_order on an order that is cancelled or filled, does not exist
\* or belongs to another agent is rejected and leaves every order, balance
\* and locked_balance unchanged; over any sequence of cancellations, direct
\* or through approved pending actions, an order's unfilled remainder is
\* unlocked at most once.
C9_CancelIdempotent == []RejectedCancelChangesNothing /\ [][UnlockedOnce]_vars

\* An approved pending cancellation has cancelled its order, so that every
\* further cancellation of that order is one to reject.
C9_Witness ==
  \E action_id \in DOMAIN actions :
    /\ actions[action_id].action_type = "cancel_order"
    /\ actions[action_id].status = "approved"
    /\ orders[actions[action_id].order_id].status = "cancelled"
    /\ last.op = "approve_pending_action" /\ last.refunded > 0

SettledSince(S, n, agent_id) ==
  SumSeq([i \in 1..(Len(S.trades) - n) |->
            LET t == S.trades[n + i] IN
            (IF t.buyer_id = agent_id THEN Cost(t.price, t.size) ELSE 0)
            + (IF t.seller_id = agent_id THEN Cost(100 - t.price, t.size) ELSE 0)])

\* The request meets the preconditions of a placement.
CanPlace(agent_id, market_id, price, size) ==
  /\ agent_id \in DOMAIN agents
  /\ can_trade(agents[agent_id])
  /\ markets[market_id].status = "open"
  /\ available_balance(agents[agent_id]) >= Cost(price, size)

StatusMoves == {<<"none", "open">>, <<"open", "closed">>,
                <<"open", "resolved">>, <<"closed", "resolved">>}

\* resolve_market on a resolved or unknown market is rejected and mutates
\* nothing, and every resolved market was resolved, and rewarded, once.
ResolvedOnce ==
  /\ \A market_id \in Markets, outcome \in Sides, moderator_id \in Agents :
       LET r == resolve_market_endpoint(Session, market_id, outcome, moderator_id)
       IN markets[market_id].status \in {"resolved", "none"}
            => r.status # 200 /\ r.S = Session
  /\ stats.total_markets_resolved =
       Cardinality({m \in Markets : markets[m].status = "resolved"})
  /\ \A i, j \in DOMAIN rewards : rewards[i].market_id = rewards[j].market_id => i = j

\* A status changes only along StatusMoves, a resolved market keeps its
\* status, outcome and resolver, and a balance is credited only by the
\* resolution of a market that was not resolved before.
ResolutionFinal ==
  /\ \A m \in Markets :
       /\ markets'[m].status # markets[m].status
            => <<markets[m].status, markets'[m].status>> \in StatusMoves
       /\ markets[m].status = "resolved"
            => /\ markets'[m].status = "resolved"
               /\ markets'[m].outcome = markets[m].outcome
               /\ markets'[m].resolved_by = markets[m].resolved_by
  /\ (\E a \in Agents : agents'[a].balance > agents[a].balance)
       => /\ last'.op = "resolve_market"
          /\ Cardinality({m \in Markets : /\ markets[m].status \in {"open", "closed"}
                                          /\ markets'[m].status = "resolved"}) = 1

\* C12: resolution is final and market status is one-way: it moves only
\* open -> closed, open -> resolved or closed -> resolved; resolve_market on
\* a resolved or unknown market is rejected before any mutation, so that a
\* resolved market's status, outcome and resolver never change and no
\* position is paid out more than once.
C12_ResolutionFinal == []ResolvedOnce /\ [][ResolutionFinal]_vars

\* A market with trades was resolved and its moderator rewarded, while the
\* other market is closed.
C12_Witness ==
  /\ last.op = "resolve_market"
  /\ \E m \in Markets :
       /\ markets[m].status = "resolved"
       /\ \E i \in DOMAIN trades : trades[i].market_id = m
       /\ \E i \in DOMAIN rewards : rewards[i].market_id = m
  /\ \E m \in Markets : markets[m].status = "closed"

\* The locks held by the open and partial orders of agent a on market_id.
OpenLocks(a, market_id) ==
  SumSeq([o \in DOMAIN orders |->
            IF /\ orders[o].agent_id = a
               /\ orders[o].market_id = market_id
               /\ orders[o].status \in OpenStatus
            THEN Cost(orders[o].price, remaining(orders[o])) ELSE 0])

\* C13: when resolve_market completes, every order of the market that was
\* open or partial is cancelled and nothing else about it changed, its
\* owner's locked_balance went down by exactly price * (size - filled), and
\* orders that were filled or cancelled and orders of other markets are as
\* they were.
C13_ResolveCancelsOrders ==
  \A market_id \in Markets, outcome \in Sides, moderator_id \in Agents :
    LET r == resolve_market_endpoint(Session, market_id, outcome, moderator_id)
    IN r.status = 200 =>
         /\ DOMAIN r.S.orders = DOMAIN orders
         /\ \A o \in DOMAIN orders :
              /\ ~(r.S.orders[o].market_id = market_id /\ r.S.orders[o].status \in OpenStatus)
              /\ r.S.orders[o] =
                   IF orders[o].market_id = market_id /\ orders[o].status \in OpenStatus
                   THEN [orders[o] EXCEPT !.status = "cancelled"]
                   ELSE orders[o]
         /\ \A a \in Agents :
              r.S.agents[a].locked_balance = agents[a].locked_balance - OpenLocks(a, market_id)

\* The last request resolved a market that had a partially filled order, now
\* cancelled, and a filled order, while an order of the other market is open.
C13_Witness ==
  /\ last.op = "resolve_market"
  /\ \E o, f, x \in DOMAIN orders :
       /\ markets[orders[o].market_id].status = "resolved"
       /\ orders[o].status = "cancelled"
       /\ 0 < orders[o].filled /\ orders[o].filled < orders[o].size
       /\ orders[f].market_id = orders[o].market_id
       /\ orders[f].status = "filled"
       /\ orders[x].market_id # orders[o].market_id
       /\ orders[x].status = "open"

\* C14: after a market is resolved every agent whose orders are all on that
\* market has locked_balance 0, whatever mix of unfilled, partially filled
\* and completely filled orders the agent had.
C14_ResolvedNothingLocked ==
  \A m \in Markets, a \in Agents :
    (/\ markets[m].status = "resolved"
     /\ \A o \in DOMAIN orders : orders[o].agent_id = a => orders[o].market_id = m)
    => agents[a].locked_balance = 0

\* What the claim of C15 credits to a position of n winning shares bought at
\* the average price avg (a rational in cents, <<0, 1>> when missing).
ExpectedPayout(n, avg) ==
  LET gross == n * UnitsPerToken
      basis == (avg[1] * n * UnitsPerCent) \div avg[2]
      fee == IF avg[1] = 0 THEN 0
             ELSE Max(0, ((gross - basis) * SETTLEMENT_FEE_RATE) \div RateDen)
  IN gross - fee

\* C15: on resolution every position of n > 0 winning shares at average
\* price a has its agent's balance credited by exactly
\* n * 1.00 - max(0, (n * 1.00 - a * n) * SETTLEMENT_FEE_RATE); the fee is a
\* fraction of the profit only and never more than the profit.
C15_WinnerPayout ==
  \A market_id \in Markets, outcome \in Sides, moderator_id \in Agents :
    LET r == resolve_market_endpoint(Session, market_id, outcome, moderator_id)
    IN r.status = 200 =>
         \A a \in Agents \ {moderator_id} :
           LET position == positions[<<a, market_id>>]
               n == IF outcome = "YES" THEN position.yes_shares ELSE position.no_shares
               avg == IF outcome = "YES" THEN position.avg_yes_price ELSE position.avg_no_price
               credit == r.S.agents[a].balance - agents[a].balance
           IN n > 0 =>
                /\ credit = ExpectedPayout(n, avg)
                /\ n * UnitsPerToken - credit >= 0
                /\ (n * UnitsPerToken - credit) * avg[2] * RateDen
                     <= (n * 100 * avg[2] - avg[1] * n) * UnitsPerCent * SETTLEMENT_FEE_RATE

\* The last request resolved a market on which an agent held winning shares
\* bought below 1.00 and paid a settlement fee.
C15_Witness ==
  /\ last.op = "resolve_market"
  /\ \E m \in Markets, a \in Agents :
       /\ markets[m].status = "resolved"
       /\ winning_shares(positions[<<a, m>>], markets[m].outcome) > 0
       /\ winning_avg_price(positions[<<a, m>>], markets[m].outcome)[1] > 0
       /\ \E i \in DOMAIN fees :
            /\ fees[i].fee_type = "settlement"
            /\ fees[i].agent_id = a /\ fees[i].market_id = m /\ fees[i].amount > 0

\* C16: resolution leaves unchanged the balance of every agent, other than
\* the resolving moderator, that holds no shares of the winning side in the
\* resolved market; holders of only losing shares receive nothing.
C16_LosersUnchanged ==
  \A market_id \in Markets, outcome \in Sides, moderator_id \in Agents :
    LET r == resolve_market_endpoint(Session, market_id, outcome, moderator_id)
    IN r.status = 200 =>
         \A a \in Agents \ {moderator_id} :
           winning_shares(positions[<<a, market_id>>], outcome) = 0
             => r.S.agents[a].balance = agents[a].balance

\* The last request resolved a market on which an agent holds shares of the
\* losing side only.
C16_Witness ==
  /\ last.op = "resolve_market"
  /\ \E m \in Markets, a \in Agents :
       /\ markets[m].status = "resolved"
       /\ winning_shares(positions[<<a, m>>], markets[m].outcome) = 0
       /\ positions[<<a, m>>].yes_shares + positions[<<a, m>>].no_shares > 0

\* C17: every order is owned by a trader and every resolved market was
\* resolved by a moderator; a moderator's placement, direct or through the
\* approval of a pending place_order action, and a trader's resolution are
\* rejected and change nothing.
C17_RoleSeparation ==
  /\ \A o \in DOMAIN orders : agents[orders[o].agent_id].role = "trader"
  /\ \A m \in Markets :
       markets[m].status = "resolved" => agents[markets[m].resolved_by].role = "moderator"
  /\ \A agent_id \in Moderators, market_id \in Markets, side \in Sides, price \in Prices,
        size \in Sizes :
       /\ \A order_type \in OrderTypes :
            LET r == place_order(Session, agent_id, market_id, side, order_type, price, size)
            IN r.status \notin {200, 202} /\ r.S = Session
       /\ LET S1 == create_pending_action(Session,
                      PendingAction(agent_id, "place_order", market_id, side, price, size, 0))
              r == approve_pending_action(S1, Len(S1.actions), agent_id)
          IN r.status \notin {200, 202} /\ r.S = S1
  /\ \A agent_id \in Traders, market_id \in Markets, outcome \in Sides :
       LET r == resolve_market_endpoint(Session, market_id, outcome, agent_id)
       IN r.status \notin {200, 202} /\ r.S = Session

\* An order created by the approval of a trader's pending action rests on
\* the open market, which a moderator with funds could trade on if roles
\* were not checked.
C17_Witness ==
  /\ last.op = "approve_pending_action" /\ last.order_id > 0
  /\ \E m \in Markets :
       /\ markets[m].status = "open"
       /\ \E o \in DOMAIN orders : orders[o].market_id = m /\ orders[o].status = "open"
       /\ \E a \in Moderators, price \in Prices :
            available_balance(agents[a]) >= Cost(price, 1)

\* C18: in every reachable state yes_price + no_price = 1.00 for every
\* market.
C18_PricesSumToOne ==
  \A m \in Markets :
    markets[m].status # "none" => markets[m].yes_price + markets[m].no_price = 100

\* A trade has moved the price of a market away from the initial 0.50.
C18_Witness ==
  \E m \in Markets :
    /\ markets[m].yes_price # 50
    /\ \E t \in DOMAIN trades : trades[t].market_id = m

\* C19: a match_order call that made at least one trade leaves the market
\* with yes_price = the price of the last trade of the call and
\* no_price = 1.00 - yes_price; a call that made no trade leaves both prices
\* as they were.
PriceFollowsLastTrade ==
  MatchStep =>
    LET m == orders'[Len(orders')].market_id
    IN IF Len(trades') > Len(trades)
       THEN /\ markets'[m].yes_price = trades'[Len(trades')].price
            /\ markets'[m].no_price = 100 - trades'[Len(trades')].price
       ELSE /\ markets'[m].yes_price = markets[m].yes_price
            /\ markets'[m].no_price = markets[m].no_price

C19_PriceFollowsLastTrade == [][PriceFollowsLastTrade]_vars

\* The last placement made two trades at different prices, and the market
\* price is that of the second.
C19_Witness ==
  /\ last.op = "place_order" /\ last.trades = 2
  /\ trades[Len(trades)].price # trades[Len(trades) - 1].price
  /\ markets[trades[Len(trades)].market_id].yes_price = trades[Len(trades)].price

\* The value price * size of the trades made on market m.
TradedValue(m) ==
  SumSeq([i \in DOMAIN trades |->
            IF trades[i].market_id = m THEN Cost(trades[i].price, trades[i].size) ELSE 0])

\* C20: the volume of every market is the sum of price * size over all the
\* trades made on it, whichever entry point created them.
C20_VolumeIsTradeValue ==
  \A m \in Markets : markets[m].volume = TradedValue(m)

\* The share count and the average price of one side of a position.
SharesOf(position, side) ==
  IF side = "YES" THEN position.yes_shares ELSE position.no_shares

AvgOf(position, side) ==
  IF side = "YES" THEN position.avg_yes_price ELSE position.avg_no_price

OtherSide(side) == IF side = "YES" THEN "NO" ELSE "YES"

\* C21: a BUY fill of d > 0 shares at price p raises the share count of that
\* side by d and makes the average price
\* (old_avg * old_shares + p * d) / (old_shares + d), or p when there were no
\* shares; the other side of the position and all other positions are left
\* alone.
C21_WeightedAverage ==
  \A a \in Agents, m \in Markets, side \in Sides, d \in Sizes, p \in Prices :
    LET old == positions[<<a, m>>]
        S1 == update_position(Session, a, m, side, d, p, TRUE)
        new == S1.positions[<<a, m>>]
        old_shares == SharesOf(old, side)
        old_avg == AvgOf(old, side)
        new_avg == AvgOf(new, side)
    IN old_shares >= 0 =>
         /\ SharesOf(new, side) = old_shares + d
         /\ IF old_shares = 0 THEN new_avg = <<p, 1>>
            ELSE /\ old_avg # None
                 /\ new_avg[1] * old_avg[2] * (old_shares + d)
                      = new_avg[2] * (old_avg[1] * old_shares + p * d * old_avg[2])
         /\ SharesOf(new, OtherSide(side)) = SharesOf(old, OtherSide(side))
         /\ AvgOf(new, OtherSide(side)) = AvgOf(old, OtherSide(side))
         /\ \A k \in DOMAIN positions : k # <<a, m>> => S1.positions[k] = positions[k]

\* A position was built by fills at different prices: its average price is
\* none of the order prices.
C21_Witness ==
  \E a \in Agents, m \in Markets, side \in Sides :
    /\ SharesOf(positions[<<a, m>>], side) >= 2
    /\ AvgOf(positions[<<a, m>>], side) # None
    /\ \A p \in Prices : AvgOf(positions[<<a, m>>], side) # <<p, 1>>

\* C22: a SELL fill of k shares lowers the share count of the sold side of
\* the seller's position by exactly k and changes nothing else: both average
\* prices and the other side's share count stay as they were.
C22_SellKeepsCostBasis ==
  \A a \in Agents, m \in Markets, side \in Sides, k \in Sizes, p \in Prices :
    LET old == positions[<<a, m>>]
        S1 == update_position(Session, a, m, side, 0 - k, p, FALSE)
        new == S1.positions[<<a, m>>]
    IN /\ SharesOf(new, side) = SharesOf(old, side) - k
       /\ SharesOf(new, OtherSide(side)) = SharesOf(old, OtherSide(side))
       /\ new.avg_yes_price = old.avg_yes_price
       /\ new.avg_no_price = old.avg_no_price
       /\ \A q \in DOMAIN positions : q # <<a, m>> => S1.positions[q] = positions[q]

\* The last trade was a same-side transfer whose seller had bought the
\* shares before: the position still carries the average price.
C22_Witness ==
  /\ last.op = "match_order" /\ last.trades > 0
  /\ LET t == trades[Len(trades)]
     IN /\ orders[t.sell_order_id].order_type = "sell"
        /\ AvgOf(positions[<<t.seller_id, t.market_id>>], t.side) # None

\* The preconditions of a place_order action do not hold now.
PlaceStale(action) ==
  \/ ~can_trade(agents[action.agent_id])
  \/ markets[action.market_id].status # "open"
  \/ available_balance(agents[action.agent_id]) < Cost(action.price, action.size)

\* The order of a cancel_order action is not open or partial now.
CancelStale(action) ==
  \/ action.order_id \notin DOMAIN orders
  \/ orders[action.order_id].status \notin OpenStatus

\* C23: approval validates against the state at approval time.  Approving a
\* place_order action whose agent cannot trade, whose market is not open or
\* whose cost exceeds balance - locked_balance creates no order, locks
\* nothing and leaves the action pending; approving a cancel_order action
\* whose order is not open or partial refunds nothing.  An action whose
\* preconditions hold now is executed.
C23_ApprovalRevalidates ==
  \A action_id \in DOMAIN actions :
    LET action == actions[action_id]
        r == approve_pending_action(Session, action_id, action.agent_id)
    IN action.status = "pending" =>
         /\ (action.action_type = "place_order" /\ PlaceStale(action)) =>
              /\ r.status \notin {200, 202}
              /\ r.S = Session
         /\ (action.action_type = "cancel_order" /\ CancelStale(action)) =>
              /\ r.status \notin {200, 202}
              /\ r.refunded = 0
              /\ r.S = Session
         /\ (action.action_type = "place_order" /\ ~PlaceStale(action)) =>
              /\ r.status = 200
              /\ Len(r.S.orders) = Len(orders) + 1
              /\ r.S.actions[action_id].status = "approved"
         /\ (action.action_type = "cancel_order" /\ ~CancelStale(action)) =>
              /\ r.status = 200
              /\ r.S.orders[action.order_id].status = "cancelled"
              /\ r.S.actions[action_id].status = "approved"

\* A place_order action that was affordable when it was queued waits on an
\* open market while its owner's available balance has fallen below its cost.
C23_Witness ==
  \E action_id \in DOMAIN actions :
    LET action == actions[action_id]
    IN /\ action.status = "pending" /\ action.action_type = "place_order"
       /\ markets[action.market_id].status = "open"
       /\ available_balance(agents[action.agent_id]) < Cost(action.price, action.size)
       /\ InitBalance[action.agent_id] >= Cost(action.price, action.size)

\* The settlement fee and the positive profit of agent a's winning shares
\* on market m under the given outcome, from the position before resolution.
ExpectedFee(a, m, outcome) ==
  LET n == SharesOf(positions[<<a, m>>], outcome)
      avg == AvgOf(positions[<<a, m>>], outcome)
  IN IF n > 0 THEN n * UnitsPerToken - ExpectedPayout(n, avg) ELSE 0

ExpectedProfit(a, m, outcome) ==
  LET n == SharesOf(positions[<<a, m>>], outcome)
      avg == AvgOf(positions[<<a, m>>], outcome)
  IN IF n > 0 /\ avg[1] # 0
     THEN Max(0, n * UnitsPerToken - (avg[1] * n * UnitsPerCent) \div avg[2])
     ELSE 0

\* What an accepted resolution r does for the moderator: the balance credit
\* and the growth of the platform's settlement fee total.
RewardCredited(r, market_id, outcome, moderator_id) ==
  LET fees_total == SumFn([a \in Agents |-> ExpectedFee(a, market_id, outcome)], Agents)
      profits == SumFn([a \in Agents |-> ExpectedProfit(a, market_id, outcome)], Agents)
      credit == r.S.agents[moderator_id].balance - agents[moderator_id].balance
      grown == r.S.stats.total_settlement_fees - stats.total_settlement_fees
  IN /\ credit * RateDen = fees_total * MODERATOR_PLATFORM_SHARE + profits * MODERATOR_WINNER_FEE
     /\ (fees_total - grown) * RateDen = fees_total * MODERATOR_PLATFORM_SHARE

\* The ModeratorReward row with the breakdown of the credit is the one new
\* row of r.
RewardRecorded(r, market_id, outcome, moderator_id) ==
  LET fees_total == SumFn([a \in Agents |-> ExpectedFee(a, market_id, outcome)], Agents)
      profits == SumFn([a \in Agents |-> ExpectedProfit(a, market_id, outcome)], Agents)
      row == r.S.rewards[Len(r.S.rewards)]
  IN /\ Len(r.S.rewards) = Len(rewards) + 1
     /\ row.moderator_id = moderator_id /\ row.market_id = market_id
     /\ row.platform_share * RateDen = fees_total * MODERATOR_PLATFORM_SHARE
     /\ row.winner_fee * RateDen = profits * MODERATOR_WINNER_FEE
     /\ row.total_reward = row.platform_share + row.winner_fee
     /\ row.total_reward = r.S.agents[moderator_id].balance - agents[moderator_id].balance
     /\ row.total_winner_profits = profits

\* C24 as stated: every resolution credits the moderator with
\* total_settlement_fees * MODERATOR_PLATFORM_SHARE + winners' positive
\* profits * MODERATOR_WINNER_FEE, records a ModeratorReward with that
\* breakdown and adds total_settlement_fees minus the moderator's platform
\* share to PlatformStats.total_settlement_fees.
C24_RewardAlwaysRecorded ==
  \A market_id \in Markets, outcome \in Sides, moderator_id \in Agents :
    LET r == resolve_market_endpoint(Session, market_id, outcome, moderator_id)
    IN r.status = 200 =>
         /\ RewardCredited(r, market_id, outcome, moderator_id)
         /\ RewardRecorded(r, market_id, outcome, moderator_id)

\* C24 amended: the credit and the statistics are as stated on every
\* resolution; the ModeratorReward row is recorded when the total reward is
\* positive, and no row is recorded when it is zero.
C24_ModeratorReward ==
  \A market_id \in Markets, outcome \in Sides, moderator_id \in Agents :
    LET r == resolve_market_endpoint(Session, market_id, outcome, moderator_id)
        credit == r.S.agents[moderator_id].balance - agents[moderator_id].balance
    IN r.status = 200 =>
         /\ RewardCredited(r, market_id, outcome, moderator_id)
         /\ credit >= 0
         /\ IF credit > 0 THEN RewardRecorded(r, market_id, outcome, moderator_id)
            ELSE r.S.rewards = rewards

\* A market was resolved with a winner in profit: the moderator was paid and
\* the reward recorded.
C24_Witness ==
  /\ last.op = "resolve_market"
  /\ rewards # <<>>
  /\ rewards[Len(rewards)].platform_share > 0
  /\ rewards[Len(rewards)].winner_fee > 0
  /\ agents[rewards[Len(rewards)].moderator_id].balance
       = InitBalance[rewards[Len(rewards)].moderator_id] + rewards[Len(rewards)].total_reward

\* Resting order r is a same-side candidate for the incoming order inc: open,
\* same market and side, opposite order type, another agent, price crossed.
SameSideEligible(inc, r) ==
  /\ orders[r].market_id = inc.market_id
  /\ orders[r].side = inc.side
  /\ orders[r].order_type # inc.order_type
  /\ orders[r].status \in OpenStatus
  /\ orders[r].agent_id # inc.agent_id
  /\ orders[r].size - orders[r].filled > 0
  /\ IF inc.order_type = "buy" THEN orders[r].price <= inc.price
                               ELSE orders[r].price >= inc.price

\* Trade i of the new state joins orders of opposite sides.
ComplementaryTrade(i) ==
  orders'[trades'[i].buy_order_id].side # orders'[trades'[i].sell_order_id].side

\* C25: within one match_order call every same-side trade precedes every
\* complementary trade, and a complementary trade is made only when every
\* eligible same-side resting order has been filled completely.
SameSideFirst ==
  MatchStep =>
    LET inc == orders'[Len(orders')]
        new == (Len(trades) + 1)..Len(trades')
    IN /\ \A i, j \in new : (i < j /\ ComplementaryTrade(i)) => ComplementaryTrade(j)
       /\ (\E i \in new : ComplementaryTrade(i)) =>
            \A r \in DOMAIN orders :
              SameSideEligible(inc, r) => orders'[r].filled = orders'[r].size

C25_SameSideFirst == [][SameSideFirst]_vars

\* The last match_order call made a same-side trade and then a
\* complementary one.
C25_Witness ==
  /\ last.op = "match_order" /\ last.trades = 2
  /\ LET t1 == trades[Len(trades) - 1]
         t2 == trades[Len(trades)]
     IN /\ orders[t1.buy_order_id].side = orders[t1.sell_order_id].side
        /\ orders[t2.buy_order_id].side # orders[t2.sell_order_id].side

\* The trades that this step adds.
NewTrades == {i \in DOMAIN trades' : i > Len(trades)}

TerminalStatus == {"filled", "cancelled"}

\* An order that is filled or cancelled keeps its status and its filled count
\* in this step, and no trade that this step adds references it.
TerminalKept ==
  \A o \in DOMAIN orders :
    orders[o].status \in TerminalStatus =>
      /\ orders'[o].status = orders[o].status
      /\ orders'[o].filled = orders[o].filled
      /\ \A i \in NewTrades : o \notin {trades'[i].buy_order_id, trades'[i].sell_order_id}

TradedSize(o) ==
  SumSeq([i \in DOMAIN trades |->
            IF o \in {trades[i].buy_order_id, trades[i].sell_order_id}
            THEN trades[i].size ELSE 0])

\* C26: for every order, also when match_order calls that run concurrently
\* consume the same resting order, 0 <= filled <= size, the status is filled
\* exactly when filled = size and partial only when 0 < filled < size, and
\* the sizes of the trades that reference the order sum to filled.
C26_FillAccounting ==
  \A o \in DOMAIN orders :
    /\ 0 <= orders[o].filled /\ orders[o].filled <= orders[o].size
    /\ orders[o].status = "filled" <=> orders[o].filled = orders[o].size
    /\ orders[o].status = "partial" =>
         (0 < orders[o].filled /\ orders[o].filled < orders[o].size)
    /\ TradedSize(o) = orders[o].filled

\* Resting order r is, after this step, still a candidate for the incoming
\* order inc in one of the two matching relations: open or partial, quantity
\* left, same market, another agent, price compatible.
LeftOver(inc, r) ==
  /\ orders'[r].market_id = inc.market_id
  /\ orders'[r].status \in OpenStatus
  /\ orders'[r].agent_id # inc.agent_id
  /\ orders'[r].size - orders'[r].filled > 0
  /\ \/ /\ orders'[r].side = inc.side
        /\ orders'[r].order_type # inc.order_type
        /\ IF inc.order_type = "buy" THEN orders'[r].price <= inc.price
                                     ELSE orders'[r].price >= inc.price
     \/ /\ orders'[r].side # inc.side
        /\ orders'[r].order_type = inc.order_type
        /\ orders'[r].price + inc.price >= 100

\* The sizes of the trades this step adds, in the order they were made.
NewTradeSizes ==
  [k \in 1..(Len(trades') - Len(trades)) |-> trades'[Len(trades) + k].size]

\* The resting order of trade t of this step.
RestingOf(t) ==
  IF t.buy_order_id = Len(orders') THEN t.sell_order_id ELSE t.buy_order_id

\* When match_order returns, the incoming order is filled or no candidate is
\* left; every trade took the smaller of the two remaining quantities.
Maximal ==
  MatchStep =>
    LET inc == orders'[Len(orders')]
        sizes == NewTradeSizes
    IN /\ \/ inc.filled = inc.size
          \/ \A r \in DOMAIN orders : ~LeftOver(inc, r)
       /\ \A k \in DOMAIN sizes :
            LET r == RestingOf(trades'[Len(trades) + k])
            IN /\ r \in DOMAIN orders
               /\ sizes[k] > 0
               /\ sizes[k] = Min(inc.size - SumSeq(SubSeq(sizes, 1, k - 1)),
                                 orders[r].size - orders[r].filled)
       /\ SumSeq(sizes) = inc.filled

LockCovered ==
  Len(orders') = Len(orders) + 1 =>
    LET order == orders'[Len(orders')]
    IN available_balance(agents[order.agent_id]) >= Cost(order.price, order.size)

C29_NoLockRace == [][LockCovered]_vars

\* C30: a cancellation that takes effect while a match has touched the same
\* order computes its refund as price times the quantity that is unfilled in
\* the database at that moment, and an order that the racing match filled
\* completely is not set to cancelled.
CancelTakesEffect(q) ==
  /\ reqs[q].pc = "cancel_agent" /\ reqs'[q].pc = "idle"
  /\ (orders' # orders \/ agents' # agents)
  /\ actions' = actions

CancelOfUnfilled ==
  \A q \in Requests :
    CancelTakesEffect(q) =>
      LET order == orders[reqs[q].order_id]
      IN /\ order.status \in OpenStatus
         /\ orders'[reqs[q].order_id].status = "cancelled"
         /\ orders'[reqs[q].order_id].filled = order.filled
         /\ last'.refunded = Cost(order.price, order.size - order.filled)

C30_CancelRace == [][CancelOfUnfilled]_vars

OpenCommitments(a) ==
  SumSeq([o \in DOMAIN orders |->
            IF orders[o].agent_id = a /\ orders[o].status \in OpenStatus
            THEN Cost(orders[o].price, remaining(orders[o])) ELSE 0])

\* C36: locked funds always equal open commitments: each agent's
\* locked_balance is the sum of price * (size - filled) over the agent's open
\* and partial orders, so a filled or cancelled order leaves nothing locked,
\* whatever prices its fills executed at.
C36_LockedIsOpenCommitments ==
  \A a \in Agents : agents[a].locked_balance = OpenCommitments(a)

\* The shares of one side that all positions of market_id hold.
ShareSupply(P, market_id, side) ==
  SumFn([a \in Agents |-> IF side = "YES" THEN P[<<a, market_id>>].yes_shares
                                           ELSE P[<<a, market_id>>].no_shares], Agents)

\* The shares the complementary trades of this step created on market_id.
ComplementarySize(market_id) ==
  SumSeq([k \in 1..(Len(trades') - Len(trades)) |->
            LET i == Len(trades) + k IN
            IF trades'[i].market_id = market_id /\ ComplementaryTrade(i)
            THEN trades'[i].size ELSE 0])

\* Every step raises both supplies of a market by the size of its
\* complementary trades: a same-side transfer changes neither.
SupplyMoves ==
  \A m \in Markets, side \in Sides :
    ShareSupply(positions', m, side) = ShareSupply(positions, m, side) + ComplementarySize(m)

SupplyBalanced ==
  \A m \in Markets : ShareSupply(positions, m, "YES") = ShareSupply(positions, m, "NO")

\* C37: share supply is balanced: in every reachable state of every market
\* the sum of yes_shares over all positions equals the sum of no_shares over
\* all positions; a complementary trade of size s raises both sums by s and
\* a same-side transfer changes neither.
C37_ShareSupply == []SupplyBalanced /\ [][SupplyMoves]_vars

\* The last match_order call moved shares between two agents on one side of
\* a market whose shares an earlier complementary trade created.
C37_Witness ==
  /\ last.op = "match_order" /\ last.trades = 1
  /\ LET t == trades[Len(trades)] IN
       /\ orders[t.buy_order_id].side = orders[t.sell_order_id].side
       /\ \E i \in 1..(Len(trades) - 1) :
            /\ trades[i].market_id = t.market_id
            /\ orders[trades[i].buy_order_id].side # orders[trades[i].sell_order_id].side
       /\ ShareSupply(positions, t.market_id, "YES") > 0

\* The sum of the PlatformFee records of one fee type.
FeeSum(F, fee_type) ==
  SumSeq([i \in DOMAIN F |-> IF F[i].fee_type = fee_type THEN F[i].amount ELSE 0])

\* The trading fees settle_trade deducted from buyers and sellers.
TradingFeesDeducted ==
  SumSeq([i \in DOMAIN trades |-> trades[i].buyer_fee + trades[i].seller_fee])

BalanceOf(A) == SumFn([a \in Agents |-> A[a].balance], Agents)

\* What this step deducted from its agent as market creation fee.
CreationFeeDeducted ==
  IF last'.op \in {"create_market", "create_market_v1"}
  THEN BalanceOf(agents) - BalanceOf(agents') ELSE 0

\* What this step withheld from the payouts of the market it resolved: the
\* winning shares at 1.00 each and the moderator's reward, less what the
\* balances grew by.
SettlementFeeWithheld ==
  SumFn([m \in Markets |->
           IF markets[m].status # "resolved" /\ markets'[m].status = "resolved"
           THEN SumFn([a \in Agents |->
                         Max(0, gross_payout(positions[<<a, m>>], markets'[m].outcome))],
                      Agents)
                + (IF Len(rewards') > Len(rewards)
                   THEN rewards'[Len(rewards')].total_reward ELSE 0)
                - (BalanceOf(agents') - BalanceOf(agents))
           ELSE 0], Markets)

FeesRecorded ==
  /\ FeeSum(fees, "trading") = TradingFeesDeducted
  /\ stats.total_trading_fees = FeeSum(fees, "trading")
  /\ stats.total_trades = Len(trades)

FeesRecordedInStep ==
  /\ FeeSum(fees', "market_creation") - FeeSum(fees, "market_creation") = CreationFeeDeducted
  /\ FeeSum(fees', "settlement") - FeeSum(fees, "settlement") = SettlementFeeWithheld

\* C34: fee bookkeeping never drifts: for each fee type the sum of the
\* PlatformFee record amounts equals the total of that fee deducted from, or
\* withheld from payouts to, agents; total_trading_fees equals the sum of
\* the trading-fee records and total_trades the number of Trade records.
C34_FeeBookkeeping == []FeesRecorded /\ [][FeesRecordedInStep]_vars

\* Session S with the trading mode of agent_id set.
InMode(S, agent_id, trading_mode) ==
  [S EXCEPT !.agents[agent_id].trading_mode = trading_mode]

\* The approval, right after it was queued, of the action that the manual
\* placement rm created.
ApprovedAtOnce(rm, agent_id) ==
  approve_pending_action(rm.S, Len(rm.S.actions), agent_id)

\* Sessions A and B agree on the orders, the trades, every agent's balance
\* and locked_balance, the positions and the prices of market_id.
SameBooks(A, B, market_id) ==
  /\ A.orders = B.orders
  /\ A.trades = B.trades
  /\ \A a \in Agents : /\ A.agents[a].balance = B.agents[a].balance
                       /\ A.agents[a].locked_balance = B.agents[a].locked_balance
  /\ A.positions = B.positions
  /\ A.markets[market_id].yes_price = B.markets[market_id].yes_price
  /\ A.markets[market_id].no_price = B.markets[market_id].no_price

\* An order that auto mode executes is executed by manual mode and approval
\* as well, with the same books.
ManualAsAuto(ra, rp, market_id) ==
  ra.status = 200 => /\ rp.status = 200
                     /\ rp.order_id = ra.order_id
                     /\ SameBooks(ra.S, rp.S, market_id)

\* C35, without the volume: what C35 claims of the order, the trades, the
\* balances, the positions, the resting orders and the prices.
ManualAsAutoBooks ==
  \A agent_id \in Traders, market_id \in Markets, side \in Sides,
     price \in Prices, size \in Sizes :
       ManualAsAuto(
         place_order(InMode(Session, agent_id, "auto"), agent_id, market_id, side, "buy", price, size),
         ApprovedAtOnce(
           place_order(InMode(Session, agent_id, "manual"), agent_id, market_id, side, "buy", price, size),
           agent_id),
         market_id)

SameVolume(ra, rp, market_id) ==
  ra.status = 200 => rp.S.markets[market_id].volume = ra.S.markets[market_id].volume

\* C35: manual mode is equivalent to auto mode once approved: from the same
\* state, placing an order in auto mode, and submitting it in manual mode
\* followed at once by its approval, end in states that agree on the created
\* order, the trades, all balances and locked balances, all positions, all
\* resting orders and the market's prices and volume.
C35_ManualEqualsAuto ==
  /\ ManualAsAutoBooks
  /\ \A agent_id \in Traders, market_id \in Markets, side \in Sides,
        price \in Prices, size \in Sizes :
          SameVolume(
            place_order(InMode(Session, agent_id, "auto"), agent_id, market_id, side, "buy", price, size),
            ApprovedAtOnce(
              place_order(InMode(Session, agent_id, "manual"), agent_id, market_id, side, "buy", price, size),
              agent_id),
            market_id)

\* A request that created an order answered with the number of trades and
\* the filled count that its commit holds.
ReportedIsCommitted ==
  (Len(orders') = Len(orders) + 1 /\ last'.status = 200) =>
    /\ last'.order_id = Len(orders')
    /\ last'.filled = orders'[last'.order_id].filled
    /\ last'.trades = Len(trades') - Len(trades)
    /\ \A i \in NewTrades :
         last'.order_id \in {trades'[i].buy_order_id, trades'[i].sell_order_id}
    /\ SumSeq(NewTradeSizes) = last'.filled

\* C39: what an order placement reports is what is committed: whenever an
\* entry point (direct placement, API bet, approved pending action) returns
\* n executed trades and a filled count f for the new order, the committed
\* state after the request holds exactly those n trades and the order with
\* filled = f.
C39_ReportedIsCommitted == [][ReportedIsCommitted]_vars

\* A placement that ended in an error of the matching loop left the
\* committed state as it was before the call.
AllOrNothing ==
  last'.status = 500 =>
    UNCHANGED <<agents, markets, orders, positions, trades, fees, stats, rewards, actions>>

\* C32: order placement with matching is all-or-nothing on every entry
\* point: if an error occurs in the matching loop, every trade, order fill,
\* position change, balance change and fee record made by that call is
\* rolled back, and the committed state equals the state before the call.
C32_AllOrNothing == [][AllOrNothing]_vars

\* A review takes effect in this step: request q, suspended in
\* approve_pending_action, returns and the operation of its action has
\* changed the books.
ReviewTakesEffect(q) ==
  /\ reqs[q].pc = "approve_loaded"
  /\ reqs'[q].pc = "idle"
  /\ (orders' # orders \/ agents' # agents)

\* The status of a pending action moves only from pending, and only to
\* approved, rejected or expired.
ActionStatusMoves ==
  \A action_id \in DOMAIN actions :
    actions'[action_id].status # actions[action_id].status =>
      /\ actions[action_id].status = "pending"
      /\ actions'[action_id].status \in {"approved", "rejected", "expired"}

\* The operation of an action is executed only while the stored status of
\* the action is pending.
ExecutedWhilePending ==
  \A q \in Requests :
    ReviewTakesEffect(q) => actions[reqs[q].action_id].status = "pending"

\* C38: under every interleaving of approvals, rejections and expiry, the
\* operation of a pending action takes effect at most once and never after
\* the action was approved, rejected or expired, and the status of an action
\* moves only from pending to approved, rejected or expired.
C38_ExecutedOnce == [][ActionStatusMoves /\ ExecutedWhilePending]_vars


\* No order of a resolved market is open or partial, so that no balance is
\* locked for such an order.
ResolvedMarketQuiet ==
  \A i \in DOMAIN orders :
    markets[orders[i].market_id].status = "resolved" => orders[i].status \notin OpenStatus

\* No trade is added on a market that is resolved.
NoTradeAfterResolution ==
  \A i \in NewTrades : markets[trades'[i].market_id].status # "resolved"

\* C31: under every interleaving of resolve_market with concurrent
\* placements on the same market, no order of a resolved market is left open
\* or partial with balance locked for it, and no trade executes on a market
\* after it was resolved.
C31_ResolutionFinal == []ResolvedMarketQuiet /\ [][NoTradeAfterResolution]_vars

\* Request q needs, for its next statement, a row lock that the transaction
\* of request p holds.
WaitsFor(q, p) ==
  /\ q # p
  /\ reqs[q].pc # "idle"
  /\ \/ NextAgentLocks(q) \cap reqs[p].agent_locks # {}
     \/ NextOrderLocks(q) \cap reqs[p].order_locks # {}

CircularWait == \E p, q \in Requests : WaitsFor(p, q) /\ WaitsFor(q, p)

====
